---- MODULE Spec2Model ----
(***************************************************************************)
(* M6SS: the parameter object (SyncParameters), the analytic engine        *)
(* (Model::calculate), the Monte-Carlo engine (Simulator::run) and the     *)
(* Results queries, as state machines.                                     *)
(*                                                                         *)
(* Numbers.  C++ double and duration<double> values are modelled as exact  *)
(* reals; every real that occurs is dyadic (m * 2^-e) because the inputs   *)
(* are drawn from dyadic sets.  The mantissa is an unbounded natural kept  *)
(* as a little-endian sequence of 15-bit limbs.  Durations are counted in  *)
(* nanoseconds, as std::chrono::nanoseconds does.                          *)
(***************************************************************************)
EXTENDS Integers, Sequences, FiniteSets, TLC

(***************************************************************************)
(* Unbounded naturals: <<>> is 0, limb 1 is the least significant.         *)
(***************************************************************************)
LimbBits == 15 + 0
Base == 2^LimbBits

Max2(a, b) == IF a >= b THEN a ELSE b
Min2(a, b) == IF a <= b THEN a ELSE b

RECURSIVE NNorm(_)
NNorm(a) ==
    IF a = <<>> THEN <<>>
    ELSE IF a[Len(a)] = 0 THEN NNorm(SubSeq(a, 1, Len(a) - 1))
    ELSE a

RECURSIVE NFromInt(_)
NFromInt(n) == IF n = 0 THEN <<>> ELSE <<n % Base>> \o NFromInt(n \div Base)

RECURSIVE NToIntR(_, _)
NToIntR(a, i) == IF i > Len(a) THEN 0 ELSE a[i] + Base * NToIntR(a, i + 1)
NToInt(a) == NToIntR(a, 1)

NLimb(a, i) == IF i <= Len(a) THEN a[i] ELSE 0

RECURSIVE NAddR(_, _, _, _)
NAddR(a, b, i, c) ==
    IF i > Len(a) /\ i > Len(b)
    THEN (IF c = 0 THEN <<>> ELSE <<c>>)
    ELSE LET x == NLimb(a, i) + NLimb(b, i) + c
         IN  <<x % Base>> \o NAddR(a, b, i + 1, x \div Base)
NAdd(a, b) == NNorm(NAddR(a, b, 1, 0))

\* a - b for a >= b
RECURSIVE NSubR(_, _, _, _)
NSubR(a, b, i, br) ==
    IF i > Len(a) THEN <<>>
    ELSE LET x == a[i] - NLimb(b, i) - br
         IN  IF x < 0 THEN <<x + Base>> \o NSubR(a, b, i + 1, 1)
                      ELSE <<x>> \o NSubR(a, b, i + 1, 0)
NSub(a, b) == NNorm(NSubR(a, b, 1, 0))

\* -1, 0, 1 on canonical naturals
RECURSIVE NCmpR(_, _, _)
NCmpR(a, b, i) ==
    IF i = 0 THEN 0
    ELSE IF a[i] < b[i] THEN -1
    ELSE IF a[i] > b[i] THEN 1
    ELSE NCmpR(a, b, i - 1)
NCmp(a, b) ==
    IF Len(a) < Len(b) THEN -1
    ELSE IF Len(a) > Len(b) THEN 1
    ELSE NCmpR(a, b, Len(a))

\* a * d for a limb-sized d
RECURSIVE NMulSR(_, _, _, _)
NMulSR(a, d, i, c) ==
    IF i > Len(a) THEN (IF c = 0 THEN <<>> ELSE <<c>>)
    ELSE LET x == a[i] * d + c
         IN  <<x % Base>> \o NMulSR(a, d, i + 1, x \div Base)
NMulS(a, d) == NNorm(NMulSR(a, d, 1, 0))

RECURSIVE NMulR(_, _, _)
NMulR(a, b, i) ==
    IF i > Len(b) THEN <<>>
    ELSE NAdd(NMulS(a, b[i]), <<0>> \o NMulR(a, b, i + 1))
NMul(a, b) == IF a = <<>> \/ b = <<>> THEN <<>> ELSE NNorm(NMulR(a, b, 1))

\* floor(a / d) for a limb-sized d > 0, from the most significant limb down
RECURSIVE NDivSR(_, _, _, _)
NDivSR(a, d, i, r) ==
    IF i = 0 THEN <<>>
    ELSE LET x == r * Base + a[i]
         IN  NDivSR(a, d, i - 1, x % d) \o <<x \div d>>
NDivS(a, d) == NNorm(NDivSR(a, d, Len(a), 0))

\* a * 2^bits
NShl(a, bits) ==
    IF a = <<>> THEN <<>>
    ELSE [i \in 1..(bits \div LimbBits) |-> 0] \o NMulS(a, 2^(bits % LimbBits))

\* the number of trailing zero bits of a limb x > 0
RECURSIVE LimbTz(_)
LimbTz(x) == IF x % 2 = 1 THEN 0 ELSE 1 + LimbTz(x \div 2)

(***************************************************************************)
(* Reals: [sg |-> sign, m |-> mantissa, e |-> binary exponent], the value  *)
(* sg * m * 2^-e, normalised (m odd unless e = 0, sg = 0 iff m = 0), so    *)
(* that equal values are equal records.                                    *)
(***************************************************************************)
RZero == [sg |-> 0, m |-> <<>>, e |-> 0]

RECURSIVE RNormR(_, _, _)
RNormR(sg, m, e) ==
    IF m = <<>> THEN RZero
    ELSE IF e = 0 THEN [sg |-> sg, m |-> m, e |-> 0]
    ELSE IF m[1] = 0 /\ e >= LimbBits THEN RNormR(sg, Tail(m), e - LimbBits)
    ELSE IF m[1] = 0 THEN [sg |-> sg, m |-> NDivS(m, 2^e), e |-> 0]
    ELSE LET t == Min2(LimbTz(m[1]), e)
         IN  IF t = 0 THEN [sg |-> sg, m |-> m, e |-> e]
             ELSE [sg |-> sg, m |-> NDivS(m, 2^t), e |-> e - t]
RNorm(sg, m, e) == RNormR(sg, NNorm(m), e)

\* the integer n
RInt(n) == IF n = 0 THEN RZero
           ELSE IF n > 0 THEN [sg |-> 1, m |-> NFromInt(n), e |-> 0]
           ELSE [sg |-> -1, m |-> NFromInt(-n), e |-> 0]
\* n / 2^e
RDyadic(n, e) == IF n >= 0 THEN RNorm(1, NFromInt(n), e) ELSE RNorm(-1, NFromInt(-n), e)
ROne == RInt(1)
RHalf == RDyadic(1, 1)

RNeg(x) == [sg |-> -x.sg, m |-> x.m, e |-> x.e]

RAdd(x, y) ==
    IF x.sg = 0 THEN y
    ELSE IF y.sg = 0 THEN x
    ELSE LET E  == Max2(x.e, y.e)
             mx == NShl(x.m, E - x.e)
             my == NShl(y.m, E - y.e)
         IN  IF x.sg = y.sg THEN RNorm(x.sg, NAdd(mx, my), E)
             ELSE LET c == NCmp(mx, my)
                  IN  IF c = 0 THEN RZero
                      ELSE IF c > 0 THEN RNorm(x.sg, NSub(mx, my), E)
                      ELSE RNorm(y.sg, NSub(my, mx), E)
RSub(x, y) == RAdd(x, RNeg(y))
RMul(x, y) ==
    IF x.sg = 0 \/ y.sg = 0 THEN RZero
    ELSE RNorm(x.sg * y.sg, NMul(x.m, y.m), x.e + y.e)
RSign(x) == x.sg
RLt(x, y) == RSub(x, y).sg < 0
RLe(x, y) == RSub(x, y).sg <= 0
RGt(x, y) == RLt(y, x)
RGe(x, y) == RLe(y, x)

\* std::pow(x, n) for an integer n >= 0 (pow(0, 0) = 1)
RECURSIVE RPow(_, _)
RPow(x, n) == IF n = 0 THEN ROne ELSE RMul(x, RPow(x, n - 1))

\* the exponent of d when d is a power of two (the divisions the model makes
\* are by such d: dyadic reals are closed under them)
RECURSIVE Log2(_)
Log2(d) == IF d = 1 THEN 0 ELSE 1 + Log2(d \div 2)
IsPow2(d) == d >= 1 /\ 2^Log2(d) = d
\* x / d
RDivPow2(x, d) == RNorm(x.sg, x.m, x.e + Log2(d))

RECURSIVE Gcd(_, _)
Gcd(a, b) == IF b = 0 THEN a ELSE Gcd(b, a % b)

(***************************************************************************)
(* Program constants.                                                      *)
(***************************************************************************)
\* SyncParameters::DEFAULT_SLOT_DURATION (10 ms) and DEFAULT_TX_OFFSET
\* (2120 us), in nanoseconds
DEFAULT_SLOT_DURATION == 10000000
DEFAULT_TX_OFFSET == 2120000
\* the channel numbers the constructor admits
MinChannel == 11
MaxChannel == 26

VARIABLES
    args,      \* the arguments of the SyncParameters constructor call
    obj,       \* <<>> before / without construction, else <<the object's fields>>
    thrown,    \* the exception the last call raised ("none" if it returned)
    mres,      \* the Model::Results object handed to Model::calculate
    mfresh,    \* what the current Model::calculate call writes into a Results
               \* that was freshly constructed when the call began
    mc,        \* the frame of Model::calculate: its position and locals
    qry,       \* the last Results::cdf query: engine, steps, outcome
    sres,      \* sres[t]: the Simulator::Results object of thread t
    sc,        \* sc[t]: the frame of Simulator::run in thread t
    strials,   \* strials[t]: the steps at which the trials of the current call
               \* of thread t ended, in order
    iv,        \* iv[i]: the TimeInterval object that a client holds under name i
    ivq,       \* the last TimeInterval operation: its operands and its outcome
    sch,       \* the channel schedule as each engine walks it: the table W
               \* under construction, the step, and what was read at it
    mv,        \* ModelValidator::makeValidation: its position, the flags of
               \* the running flow and the worker threads
    db         \* the validator's static session state (db, stmt,
               \* insertCounter) and what the database has seen

simVars == <<sres, sc, strials>>
ivVars == <<iv, ivq>>
schVars == <<sch>>
mvVars == <<mv, db>>
vars == <<args, obj, thrown, mres, mfresh, mc, qry, sres, sc, strials, iv, ivq, sch, mv, db>>

(***************************************************************************)
(* SyncParameters::SyncParameters.  chs is a sequence (std::vector<int>),  *)
(* pSR a function from its key set (std::map<int,double>), the times are   *)
(* nanosecond counts.                                                      *)
(***************************************************************************)
\* the index of the first channel of chs, in vector order, that the loop over
\* pSR rejects (0: none)
RECURSIVE FirstBadPsr(_, _, _)
FirstBadPsr(chs, pSR, i) ==
    IF i > Len(chs) THEN 0
    ELSE IF chs[i] \notin DOMAIN pSR THEN i
    ELSE IF RLt(pSR[chs[i]], RZero) \/ RGt(pSR[chs[i]], ROne) THEN i
    ELSE FirstBadPsr(chs, pSR, i + 1)

\* a size test that lets one extra key through
PsrExtraOffByOne(a) == Cardinality(DOMAIN a.pSR) > Len(a.chs) + 1
\* pSR.size() > chs.size()
PsrExtra(a) == Cardinality(DOMAIN a.pSR) > Len(a.chs)

\* the condition under which the check named c throws
Fails(a, c) ==
    CASE c = "chs_range" ->
           \E i \in 1..Len(a.chs) : a.chs[i] < MinChannel \/ a.chs[i] > MaxChannel
      [] c = "chs_unique" ->
           \E i \in 1..Len(a.chs) : \E j \in (i + 1)..Len(a.chs) : a.chs[i] = a.chs[j]
      [] c = "s_positive" -> a.s <= 0
      [] c = "coprime" -> Gcd(Len(a.chs), a.s) # 1
      [] c = "pEB" -> RLt(a.pEB, RZero) \/ RGt(a.pEB, ROne)
      [] c = "pSR_loop" -> FirstBadPsr(a.chs, a.pSR, 1) # 0
      [] c = "pSR_extra" -> PsrExtra(a)
      [] c = "tScan" -> a.tScan <= 0
      [] c = "tSwitch" -> a.tSwitch < 0
      [] c = "tEB" -> a.tEB < 0

\* the exception the failing check c throws (the loop over pSR has two)
Exception(a, c) ==
    IF c # "pSR_loop" THEN c
    ELSE IF a.chs[FirstBadPsr(a.chs, a.pSR, 1)] \notin DOMAIN a.pSR
    THEN "pSR_missing" ELSE "pSR_value"

\* an order with tSwitch tested before tScan
CheckOrderSwapped ==
    <<"chs_range", "chs_unique", "s_positive", "coprime", "pEB", "pSR_loop",
      "pSR_extra", "tSwitch", "tScan", "tEB">>
\* the checks in statement order
CheckOrder ==
    <<"chs_range", "chs_unique", "s_positive", "coprime", "pEB", "pSR_loop",
      "pSR_extra", "tScan", "tSwitch", "tEB">>

\* the exception of the constructor, "none" when every check passes
RECURSIVE CtorCheckFrom(_, _)
CtorCheckFrom(a, i) ==
    IF i > Len(CheckOrder) THEN "none"
    ELSE IF Fails(a, CheckOrder[i]) THEN Exception(a, CheckOrder[i])
    ELSE CtorCheckFrom(a, i + 1)
CtorCheck(a) == CtorCheckFrom(a, 1)

\* the fields the constructor assigns after the last check
CtorFields(a) ==
    [chs_ |-> a.chs, s_ |-> a.s, pEB_ |-> a.pEB, pSR_ |-> a.pSR,
     tScan_ |-> a.tScan, tSwitch_ |-> a.tSwitch, tEB_ |-> a.tEB]

Construct ==
    /\ obj = <<>>
    /\ thrown = "none"
    /\ thrown' = CtorCheck(args)
    /\ obj' = IF CtorCheck(args) = "none" THEN <<CtorFields(args)>> ELSE <<>>
    /\ UNCHANGED <<args, mres, mfresh, mc, qry, simVars, ivVars, schVars, mvVars>>

(***************************************************************************)
(* Results (Model::Results and Simulator::Results have the same fields).   *)
(* Element j of a C++ vector v is v[j + 1] here; v.size() is Len(v).       *)
(* A duration<double> is modelled by its length in nanoseconds.            *)
(***************************************************************************)
At(v, j) == v[j + 1]

NewResults(avg) == [avgSyncTime_ |-> avg, cdf_ |-> <<>>]

\* a query that returns the entry before cdf_[steps]
ModelResultsCdfShifted(r, steps) ==
    IF steps < 1 THEN [thrown |-> "invalid_argument", value |-> <<>>]
    ELSE IF steps >= Len(r.cdf_) THEN [thrown |-> "none", value |-> <<ROne>>]
    ELSE [thrown |-> "none", value |-> <<At(r.cdf_, steps - 1)>>]
\* Model::Results::cdf(steps), steps a size_t
ModelResultsCdf(r, steps) ==
    IF steps < 1 THEN [thrown |-> "invalid_argument", value |-> <<>>]
    ELSE IF steps >= Len(r.cdf_) THEN [thrown |-> "none", value |-> <<ROne>>]
    ELSE [thrown |-> "none", value |-> <<At(r.cdf_, steps)>>]

\* Simulator::Results::cdf(steps), steps a size_t
SimResultsCdf(r, steps) ==
    IF steps < 1 THEN [thrown |-> "invalid_argument", value |-> <<>>]
    ELSE IF steps >= Len(r.cdf_) THEN [thrown |-> "none", value |-> <<ROne>>]
    ELSE [thrown |-> "none", value |-> <<At(r.cdf_, steps)>>]

NoQuery == [engine |-> "none", steps |-> 0, thrown |-> "none", value |-> <<>>]

(***************************************************************************)
(* Sums and products of f[lo], ..., f[hi], split in the middle (the order   *)
(* of exact additions and multiplications does not change the value).      *)
(***************************************************************************)
RECURSIVE RSumRange(_, _, _)
RSumRange(f, lo, hi) ==
    IF lo > hi THEN RZero
    ELSE IF lo = hi THEN f[lo]
    ELSE RAdd(RSumRange(f, lo, (lo + hi) \div 2), RSumRange(f, (lo + hi) \div 2 + 1, hi))

RECURSIVE RProdRange(_, _, _)
RProdRange(f, lo, hi) ==
    IF lo > hi THEN ROne
    ELSE IF lo = hi THEN f[lo]
    ELSE RMul(RProdRange(f, lo, (lo + hi) \div 2), RProdRange(f, (lo + hi) \div 2 + 1, hi))

\* a / b for integers a >= 0, b > 0 whose quotient is dyadic
RRatio(a, b) ==
    LET g == Gcd(a, b)
    IN  RDivPow2(RInt(a \div g), b \div g)

(***************************************************************************)
(* Model::calculate: the locals that do not change during a call.          *)
(***************************************************************************)
NumChannels(p) == Len(p.chs_)                     \* C
Tsf(p) == DEFAULT_SLOT_DURATION * p.s_

\* W[i-1] = chs[((i - 1) * s) % C], i = 1..C
W(p) ==
    [i \in 1..NumChannels(p) |-> At(p.chs_, ((i - 1) * p.s_) % NumChannels(p))]

X(p, k, y) == At(W(p), (y + k - 1) % NumChannels(p))

\* 1.0 / C * Peb * Psr.at(X(k, y))
Pstep(p, k, y) ==
    RMul(RMul(RDivPow2(ROne, NumChannels(p)), p.pEB_), p.pSR_[X(p, k, y)])

\* a case selection that counts the switch delay into the scan period
CaseOfWithSwitch(p) ==
    IF p.tScan_ + p.tSwitch_ < Tsf(p) THEN 1
    ELSE IF (p.tScan_ + p.tSwitch_) % Tsf(p) = 0 THEN 2
    ELSE 3
\* which branch of calculate runs: 1, 2 or 3
CaseOf(p) ==
    IF p.tScan_ < Tsf(p) THEN 1
    ELSE IF p.tScan_ % Tsf(p) = 0 THEN 2
    ELSE 3

\* Case 1
PsyncCond1(p, k, y) ==
    RMul(RProdRange([i \in 1..(k - 1) |-> RSub(ROne, Pstep(p, i, y))], 1, k - 1),
         Pstep(p, k, y))

Psync1(p, k) ==
    RSumRange([y \in 0..(NumChannels(p) - 1) |->
                   RMul(RDivPow2(ROne, NumChannels(p)), PsyncCond1(p, k, y))],
              0, NumChannels(p) - 1)

\* Case 2: n = Tscan / Tsf
ScanFrames(p) == p.tScan_ \div Tsf(p)

\* a count of channel passes that starts one step early
PstepSpEarlyPass(p, k, y) ==
    LET n    == ScanFrames(p)
        k_f  == ((k - 1) \div n) * n + 1
        Nchp == (k - k_f + 1) \div NumChannels(p)
    IN  RMul(RPow(RSub(ROne, RMul(p.pEB_, p.pSR_[X(p, k, y)])), Nchp), Pstep(p, k, y))
\* k_f = ((k - 1) / n) * n + 1
KfSp(p, k) == ((k - 1) \div ScanFrames(p)) * ScanFrames(p) + 1
\* an exponent that counts every earlier step of the scan period
NchpEveryStep(p, k) == k - KfSp(p, k)
\* Nchp = (k - k_f) / C
Nchp(p, k) == (k - KfSp(p, k)) \div NumChannels(p)
\* Pstep_sp(k, y)
PstepSp(p, k, y) ==
    RMul(RPow(RSub(ROne, RMul(p.pEB_, p.pSR_[X(p, k, y)])), Nchp(p, k)), Pstep(p, k, y))

Qsp(p, i, y) ==
    LET lo == (i - 1) * ScanFrames(p) + 1
        hi == i * ScanFrames(p)
    IN  RSub(ROne, RSumRange([k \in lo..hi |-> PstepSp(p, k, y)], lo, hi))

PsyncCond2(p, k, y) ==
    LET hi == (k - 1) \div ScanFrames(p)
    IN  RMul(RProdRange([i \in 1..hi |-> Qsp(p, i, y)], 1, hi), PstepSp(p, k, y))

Psync2(p, k) ==
    RSumRange([y \in 0..(NumChannels(p) - 1) |->
                   RMul(RDivPow2(ROne, NumChannels(p)), PsyncCond2(p, k, y))],
              0, NumChannels(p) - 1)

\* Psync(k) in Cases 1 and 2
PsyncSeries(p, k) == IF CaseOf(p) = 1 THEN Psync1(p, k) ELSE Psync2(p, k)

\* the time of a reception at the start of step k
StepTimeAtStart(p, k) ==
    RAdd(RMul(RInt(k - 1), RInt(Tsf(p))), RInt(p.tEB_))
\* (k - 1) * Tsf + Tsf / 2.0 + Teb
StepTime(p, k) ==
    RAdd(RAdd(RMul(RInt(k - 1), RInt(Tsf(p))), RDivPow2(RInt(Tsf(p)), 2)), RInt(p.tEB_))

\* x < 10^-9 and x < 1 - 10^-9
BelowEps(x) == RLt(RMul(x, RInt(10^9)), ROne)
BelowThreshold(x) == RLt(RMul(x, RInt(10^9)), RInt(10^9 - 1))

(***************************************************************************)
(* TimeInterval: empty, or [start, end] in nanoseconds.                    *)
(***************************************************************************)
EmptyInterval == [empty |-> TRUE, start |-> 0, end |-> 0]
\* TimeInterval(start, end) for start <= end (it throws otherwise)
Interval(start, end) == [empty |-> FALSE, start |-> start, end |-> end]
IsEmpty(I) == I.empty
Length(I) == IF IsEmpty(I) THEN 0 ELSE I.end - I.start
\* a subset test that asks for a later start
IsSubsetOfStrict(I, other) ==
    IF IsEmpty(I) \/ IsEmpty(other) THEN FALSE
    ELSE other.start < I.start /\ other.end >= I.end
IsSubsetOf(I, other) ==
    IF IsEmpty(I) \/ IsEmpty(other) THEN FALSE
    ELSE other.start <= I.start /\ other.end >= I.end
\* an intersection that returns its first operand
IntersectionKeepsFirst(I1, I2) == I1
Intersection(I1, I2) ==
    IF IsEmpty(I1) \/ IsEmpty(I2) \/ I1.start > I2.end \/ I1.end < I2.start
    THEN EmptyInterval
    ELSE Interval(Max2(I1.start, I2.start), Min2(I1.end, I2.end))

\* set(start, end): both optionals get a value, whatever their order
Set(I, start, end) == [I EXCEPT !.empty = FALSE, !.start = start, !.end = end]
\* the two-argument constructor throws std::invalid_argument
IntervalThrows(start, end) == start > end
\* intersection leaves through the exception of the constructor it calls
IntersectionThrows(I1, I2) ==
    /\ ~(IsEmpty(I1) \/ IsEmpty(I2) \/ I1.start > I2.end \/ I1.end < I2.start)
    /\ IntervalThrows(Max2(I1.start, I2.start), Min2(I1.end, I2.end))

\* the objects of a client before it has created one, and no operation yet
Names == {1, 2}
NoIntervals == [i \in Names |-> EmptyInterval]
NoOperation == [op |-> "none", a |-> EmptyInterval, b |-> EmptyInterval,
                start |-> 0, end |-> 0, thrown |-> "none", value |-> <<>>]

\* no walk of the schedule yet
SchIdle ==
    [pc |-> "idle", i |-> 0, W |-> <<>>, y |-> 0, k |-> 0, asn |-> 0,
     modelChannel |-> 0, simChannel |-> 0, visited |-> <<>>, Nchp |-> 0,
     Pstep_sp |-> RZero, sum |-> RZero]

(***************************************************************************)
(* Case 3.  n = Tscan / Tsf is not an integer; (i - 1) * n is compared     *)
(* with its floor and rounded up through the nanosecond counts.            *)
(***************************************************************************)
B(p, i) == ((i - 1) * p.tScan_) % Tsf(p) # 0
CeilDiv(a, b) == (a + b - 1) \div b
\* a first step that is never shared with the period before
KfAfterLast(p, i) == CeilDiv((i - 1) * p.tScan_, Tsf(p)) + 1
Kf(p, i) ==
    IF B(p, i) THEN CeilDiv((i - 1) * p.tScan_, Tsf(p))
    ELSE ((i - 1) * p.tScan_) \div Tsf(p) + 1
Kl(p, i) == CeilDiv(i * p.tScan_, Tsf(p))

\* updatePSync(k, p)
UpdatePSync(arr, k, v) ==
    IF k >= Len(arr) THEN Append(arr, v)
    ELSE [arr EXCEPT ![k + 1] = RAdd(arr[k + 1], v)]

RECURSIVE UpdatePSyncRange(_, _, _, _)
UpdatePSyncRange(arr, f, k, hi) ==
    IF k > hi THEN arr ELSE UpdatePSyncRange(UpdatePSync(arr, k, f[k]), f, k + 1, hi)

\* (k - 1) * Tsf + J.getStart() + J.length() / 2.0 + Teb
CoverTime(p, k, J) ==
    RAdd(RAdd(RAdd(RMul(RInt(k - 1), RInt(Tsf(p))), RInt(J.start)),
              RDivPow2(RInt(Length(J)), 2)),
         RInt(p.tEB_))

\* one call recursiveCalc(q, i, I, y) that passes the base-case test: what it
\* adds to res and to pSyncArray before recursing, and its two recursive calls
RecNode(p, arr, q, i, I, y) ==
    LET C    == NumChannels(p)
        r    == (i * p.tScan_) % Tsf(p)
        Rl   == Interval(r, Tsf(p))
        Ll   == Interval(0, r)
        Z    == IF B(p, i + 1) THEN Intersection(I, Ll) ELSE I
        k_f  == Kf(p, i)
        k_l  == Kl(p, i)
        Rf   == Interval(((i - 1) * p.tScan_) % Tsf(p), Tsf(p))
        first == ~B(p, i) \/ IsSubsetOf(I, Rf)
        Pstep_first == IF first THEN Pstep(p, k_f, y) ELSE RZero
        Psync_first == RMul(q, Pstep_first)
        E_first == RMul(Psync_first, CoverTime(p, k_f, I))
        M(k) == IF first THEN k - k_f + 1 ELSE k - k_f
        Miss(k) == RSub(ROne, RMul(p.pEB_, p.pSR_[X(p, k, y)]))
        Pstep_inter(k) == RMul(RPow(Miss(k), (M(k) - 1) \div C), Pstep(p, k, y))
        Psync_inter(k) == RMul(q, Pstep_inter(k))
        Einter(k) == RMul(Psync_inter(k), CoverTime(p, k, I))
        Plsc == IF B(p, i + 1) THEN RRatio(Length(Intersection(I, Ll)), Length(I))
                ELSE ROne
        Pstep_last == RMul(RPow(Miss(k_l), M(k_l - 1) \div C), Pstep(p, k_l, y))
        Psync_last == RMul(RMul(q, Plsc), Pstep_last)
        Elast == IF ~IsEmpty(Z) THEN RMul(Psync_last, CoverTime(p, k_l, Z)) ELSE RZero
        inter == (k_f + 1)..(k_l - 1)
        sum_p_inter_step == RSumRange([k \in inter |-> Pstep_inter(k)], k_f + 1, k_l - 1)
        Q_C == RMul(RMul(q, Plsc),
                    RSub(ROne, RAdd(RAdd(Pstep_first, Pstep_last), sum_p_inter_step)))
        Q_NC == RMul(RMul(q, RRatio(Length(Intersection(I, Rl)), Length(I))),
                     RSub(ROne, RAdd(Pstep_first, sum_p_inter_step)))
        invC == RDivPow2(ROne, C)
        arr1 == UpdatePSync(arr, k_f, RMul(invC, Psync_first))
        arr2 == UpdatePSyncRange(arr1, [k \in inter |-> RMul(invC, Psync_inter(k))],
                                 k_f + 1, k_l - 1)
        arr3 == UpdatePSync(arr2, k_l, RMul(invC, Psync_last))
    IN  [res |-> RAdd(RAdd(E_first, RSumRange([k \in inter |-> Einter(k)], k_f + 1, k_l - 1)), Elast),
         pSyncArray |-> arr3,
         Psync_first |-> Psync_first,
         Psync_inter |-> [k \in inter |-> Psync_inter(k)],
         Psync_last |-> Psync_last,
         covered |-> [q |-> Q_C, i |-> i + 1, I |-> Z],
         more |-> B(p, i + 1),
         notCovered |-> [q |-> Q_NC, i |-> i + 1, I |-> Intersection(I, Rl)]]

(***************************************************************************)
(* Model::calculate as a state machine.  mc.pc is the position:            *)
(*   "idle"      no call yet                                               *)
(*   "sum"       in the loop of sumOfExpectedValueInCases1and2             *)
(*   "rec"       in the loop over y of Case 3, inside recursiveCalc; the   *)
(*               pending calls are mc.stack, the next to run first         *)
(*   "cdf"       in the do-while loop that builds results.cdf_             *)
(*   "returned"  the call returned; "threw": it raised an exception        *)
(***************************************************************************)
\* iterations of the summation loop, and calls of recursiveCalc on one path,
\* that the model follows
MaxSteps == 64
MaxDepth == 40
\* calls of Model::calculate on one Results object
MaxCalls == 2

IdleFrame ==
    [pc |-> "idle", calls |-> 0, k |-> 0, cumulativeProb |-> RZero, sum |-> RZero,
     max_step |-> 0, Tavg_sync |-> RZero, pSyncArray |-> <<>>, y |-> 0,
     res |-> RZero, stack |-> <<>>]

\* a first call on the single point 0
RootAtPoint(p) == [q |-> ROne, i |-> 1, I |-> Interval(0, 0)]
\* recursiveCalc(1.0, 1, TimeInterval(0ns, Tsf), y)
Root(p) == [q |-> ROne, i |-> 1, I |-> Interval(0, Tsf(p))]

\* results.avgSyncTime_ = Tavg_sync; results.cdf_.push_back(0)
StoreAvg(r, avg) == [avgSyncTime_ |-> avg, cdf_ |-> Append(r.cdf_, RZero)]

\* a push of Psync(k) alone
PushCdfPsyncOnly(r, k, ps) == [r EXCEPT !.cdf_ = Append(r.cdf_, ps)]
\* results.cdf_.push_back(results.cdf_[k - 1] + Psync(k))
PushCdf(r, k, ps) ==
    [r EXCEPT !.cdf_ = Append(r.cdf_, RAdd(At(r.cdf_, k - 1), ps))]

\* the statements between the three cases and the do-while loop
EnterCdf(f, avg, maxStep) ==
    /\ mc' = [f EXCEPT !.pc = "cdf", !.Tavg_sync = avg, !.max_step = maxStep, !.k = 1]
    /\ mres' = StoreAvg(mres, avg)
    /\ mfresh' = StoreAvg(mfresh, avg)

CalcCall ==
    /\ obj # <<>>
    /\ mc.pc \in {"idle", "returned"}
    /\ mc.calls < MaxCalls
    /\ LET p == obj[1]
           f == [IdleFrame EXCEPT !.calls = mc.calls + 1]
       IN  IF CaseOf(p) \in {1, 2}
           THEN /\ mc' = [f EXCEPT !.pc = "sum", !.k = 1]
                /\ mfresh' = NewResults(RZero)
                /\ UNCHANGED mres
           ELSE IF NumChannels(p) > 0
           THEN /\ mc' = [f EXCEPT !.pc = "rec", !.pSyncArray = <<RZero>>,
                                   !.stack = <<Root(p)>>]
                /\ mfresh' = NewResults(RZero)
                /\ UNCHANGED mres
           ELSE \* the loop over y runs zero times
                /\ mc' = [f EXCEPT !.pc = "cdf", !.pSyncArray = <<RZero>>, !.k = 1]
                /\ mres' = StoreAvg(mres, RZero)
                /\ mfresh' = StoreAvg(NewResults(RZero), RZero)
    /\ UNCHANGED <<args, obj, thrown, qry, simVars, ivVars, schVars, mvVars>>

\* one iteration of the loop of sumOfExpectedValueInCases1and2
SumStep ==
    /\ mc.pc = "sum"
    /\ BelowThreshold(mc.cumulativeProb)
    /\ mc.k <= MaxSteps
    /\ LET ps == PsyncSeries(obj[1], mc.k)
       IN  mc' = [mc EXCEPT !.cumulativeProb = RAdd(@, ps),
                            !.sum = RAdd(@, RMul(ps, StepTime(obj[1], mc.k))),
                            !.k = @ + 1]
    /\ UNCHANGED <<args, obj, thrown, mres, mfresh, qry, simVars, ivVars, schVars, mvVars>>

\* the loop ends: max_step = k - 1, Tavg_sync = sum
SumExit ==
    /\ mc.pc = "sum"
    /\ ~BelowThreshold(mc.cumulativeProb)
    /\ EnterCdf(mc, mc.sum, mc.k - 1)
    /\ UNCHANGED <<args, obj, thrown, qry, simVars, ivVars, schVars, mvVars>>

\* recursiveCalc returns 0s at once
RecBase ==
    /\ mc.pc = "rec"
    /\ mc.stack # <<>>
    /\ IsEmpty(Head(mc.stack).I) \/ BelowEps(Head(mc.stack).q)
    /\ mc' = [mc EXCEPT !.stack = Tail(@)]
    /\ UNCHANGED <<args, obj, thrown, mres, mfresh, qry, simVars, ivVars, schVars, mvVars>>

\* recursiveCalc runs its body; its recursive calls are next
RecBody ==
    /\ mc.pc = "rec"
    /\ mc.stack # <<>>
    /\ ~(IsEmpty(Head(mc.stack).I) \/ BelowEps(Head(mc.stack).q))
    /\ Head(mc.stack).i <= MaxDepth
    /\ LET c == Head(mc.stack)
           n == RecNode(obj[1], mc.pSyncArray, c.q, c.i, c.I, mc.y)
       IN  mc' = [mc EXCEPT !.res = RAdd(@, n.res),
                            !.pSyncArray = n.pSyncArray,
                            !.stack = IF n.more
                                      THEN <<n.covered, n.notCovered>> \o Tail(@)
                                      ELSE <<n.covered>> \o Tail(@)]
    /\ UNCHANGED <<args, obj, thrown, mres, mfresh, qry, simVars, ivVars, schVars, mvVars>>

\* the outermost recursiveCalc returned: Tavg_sync += 1.0 / C * (its value),
\* then the next y, or the end of Case 3
RecReturn ==
    /\ mc.pc = "rec"
    /\ mc.stack = <<>>
    /\ LET p   == obj[1]
           avg == RAdd(mc.Tavg_sync, RMul(RDivPow2(ROne, NumChannels(p)), mc.res))
       IN  IF mc.y + 1 < NumChannels(p)
           THEN /\ mc' = [mc EXCEPT !.Tavg_sync = avg, !.y = @ + 1, !.res = RZero,
                                    !.stack = <<Root(p)>>]
                /\ UNCHANGED <<mres, mfresh>>
           ELSE EnterCdf(mc, avg, Len(mc.pSyncArray) - 1)
    /\ UNCHANGED <<args, obj, thrown, qry, simVars, ivVars, schVars, mvVars>>

\* Psync(k) of the do-while loop in Case 3 is pSyncArray.at(k)
CdfPsyncThrows == CaseOf(obj[1]) = 3 /\ mc.k >= Len(mc.pSyncArray)
CdfPsync ==
    IF CaseOf(obj[1]) = 3 THEN At(mc.pSyncArray, mc.k) ELSE PsyncSeries(obj[1], mc.k)

\* one iteration of the do-while loop
CdfStep ==
    /\ mc.pc = "cdf"
    /\ ~CdfPsyncThrows
    /\ mres' = PushCdf(mres, mc.k, CdfPsync)
    /\ mfresh' = PushCdf(mfresh, mc.k, CdfPsync)
    /\ mc' = [mc EXCEPT !.k = @ + 1,
                        !.pc = IF mc.k + 1 <= mc.max_step THEN "cdf" ELSE "returned"]
    /\ UNCHANGED <<args, obj, thrown, qry, simVars, ivVars, schVars, mvVars>>

\* pSyncArray.at(k) throws std::out_of_range, which leaves calculate
CdfThrow ==
    /\ mc.pc = "cdf"
    /\ CdfPsyncThrows
    /\ mc' = [mc EXCEPT !.pc = "threw"]
    /\ thrown' = "out_of_range"
    /\ UNCHANGED <<args, obj, mres, mfresh, qry, simVars, ivVars, schVars, mvVars>>

(***************************************************************************)
(* Simulator::run, one frame per thread.  The random draws are choices:    *)
(* randomScanStartTime() from StartTimes, randomChannel() from chs, and    *)
(* random() < x through the outcomes DrawBelow(x) of the comparison.       *)
(* sc[t].pc is the position of thread t:                                   *)
(*   "idle"      no call yet                                               *)
(*   "trial"     at the head of the loop over run                          *)
(*   "cell"      at the head of the while (true) loop of a trial           *)
(*   "select"    inside the do-while loop of channel selections            *)
(*   "check"     at the test whether the scan has started                  *)
(*   "returned", "threw"   the call ended                                  *)
(*   "crashed", "undefined"   outcomes of undefined behaviour              *)
(***************************************************************************)
Threads == {1, 2}

\* minimal cells of one trial that the model follows
MaxCells == 3

EmptyCounter == [k \in {} |-> 0]

SimIdle ==
    [pc |-> "idle", calls |-> 0, thrown |-> "none", numRuns |-> 0, run |-> 0,
     scanStartTime |-> 0, asn |-> 0, lastSelectedChannel |-> 0,
     lastSelectionTime |-> 0, nextSelectionTime |-> 0, channel_switch_flag |-> TRUE,
     scannedChannel |-> 0, counter |-> EmptyCounter, avg_st |-> RZero, cells |-> 0]

SlotframeDuration(p) == DEFAULT_SLOT_DURATION * p.s_
ChannelRotationCycle(p) == NumChannels(p) * SlotframeDuration(p)

\* values of startTimeDistribution(0, channelRotationCycle.count()): the
\* start of slot 0, the transmission time of slot 0 and 1 ns after it and,
\* where not every slot is a minimal cell, a time in slot 1 and the end of
\* the range
StartTimes(p) ==
    {t \in {0, DEFAULT_TX_OFFSET, DEFAULT_TX_OFFSET + 1}
            \cup (IF p.s_ > 1
                  THEN {DEFAULT_SLOT_DURATION + 1, ChannelRotationCycle(p)}
                  ELSE {}) :
        t <= ChannelRotationCycle(p)}

\* a first asn chosen by the slot alone
FirstAsnBySlot(p, scanStartTime) ==
    LET scanStartASN == scanStartTime \div DEFAULT_SLOT_DURATION
    IN  IF scanStartASN % p.s_ = 0
        THEN scanStartASN
        ELSE scanStartASN + p.s_ - (scanStartASN % p.s_)
\* the first value of asn in a trial
FirstAsn(p, scanStartTime) ==
    LET scanStartASN == scanStartTime \div DEFAULT_SLOT_DURATION
    IN  IF /\ scanStartASN % p.s_ = 0
           /\ scanStartTime <= scanStartASN * DEFAULT_SLOT_DURATION + DEFAULT_TX_OFFSET
        THEN scanStartASN
        ELSE scanStartASN + p.s_ - (scanStartASN % p.s_)

TxTime(asn) == asn * DEFAULT_SLOT_DURATION + DEFAULT_TX_OFFSET

\* the outcomes of random() < x, random() in [0, 1)
DrawBelow(x) == {b \in BOOLEAN : IF b THEN RGt(x, RZero) ELSE RLt(x, ROne)}

EbChance(p, ch) == RMul(p.pEB_, p.pSR_[ch])

\* one counter for all threads, as a static map would be
CounterOwnerFirst(t) == 1
\* the thread whose frame holds the counter that thread t uses: counter is a
\* local of the call
CounterOwner(t) == t

\* counter[current_step] = 1, or += 1
Count(counter, k) ==
    IF k \in DOMAIN counter THEN [counter EXCEPT ![k] = @ + 1]
    ELSE [j \in DOMAIN counter \cup {k} |-> IF j = k THEN 1 ELSE counter[j]]

\* counter.rbegin()->first
LastKey(counter) == CHOOSE k \in DOMAIN counter : \A j \in DOMAIN counter : j <= k

RECURSIVE SumCounters(_, _)
SumCounters(counter, i) ==
    IF i < 1 THEN 0
    ELSE SumCounters(counter, i - 1) + (IF i \in DOMAIN counter THEN counter[i] ELSE 0)

\* the statements after the loop over run
SimStore(r, counter, avg_st, numRuns) ==
    [avgSyncTime_ |-> avg_st,
     cdf_ |-> [i \in 1..(LastKey(counter) + 1) |->
                 IF i = 1 THEN RZero
                 ELSE RDivPow2(RInt(SumCounters(counter, i - 1)), numRuns)]]

\* a test that lets numRuns = 0 through
InvalidNumRunsStrict(n) == n < 0
\* numRuns <= 0
InvalidNumRuns(n) == n <= 0

NumRunsChoices == {-1, 0, 1, 2}

SimCall(t) ==
    /\ obj # <<>>
    /\ sc[t].pc \in {"idle", "returned", "threw"}
    /\ sc[t].calls < MaxCalls
    /\ \E n \in NumRunsChoices :
          IF InvalidNumRuns(n)
          THEN /\ sc' = [sc EXCEPT ![t].pc = "threw", ![t].calls = @ + 1,
                                   ![t].numRuns = n, ![t].thrown = "invalid_argument"]
               /\ UNCHANGED strials
          ELSE /\ sc' = [sc EXCEPT ![t] = [SimIdle EXCEPT !.pc = "trial",
                                                          !.calls = sc[t].calls + 1,
                                                          !.numRuns = n],
                                   ![CounterOwner(t)].counter = EmptyCounter]
               /\ strials' = [strials EXCEPT ![t] = <<>>]
    /\ UNCHANGED <<args, obj, thrown, mres, mfresh, mc, qry, sres, ivVars, schVars, mvVars>>

\* with no channel, uniform_int_distribution<int>(0, -1) is constructed and
\* chs[asn % 0] evaluated
SimUndefined(t) ==
    /\ sc[t].pc = "trial"
    /\ NumChannels(obj[1]) = 0
    /\ \E outcome \in {"crashed", "undefined"} : sc' = [sc EXCEPT ![t].pc = outcome]
    /\ UNCHANGED <<args, obj, thrown, mres, mfresh, mc, qry, sres, strials, ivVars, schVars, mvVars>>

TrialStart(t) ==
    /\ sc[t].pc = "trial"
    /\ NumChannels(obj[1]) > 0
    /\ sc[t].run < sc[t].numRuns
    /\ \E scanStartTime \in StartTimes(obj[1]) :
       \E ch \in {obj[1].chs_[i] : i \in 1..Len(obj[1].chs_)} :
          sc' = [sc EXCEPT ![t].pc = "cell",
                           ![t].scanStartTime = scanStartTime,
                           ![t].asn = FirstAsn(obj[1], scanStartTime),
                           ![t].lastSelectedChannel = ch,
                           ![t].lastSelectionTime = scanStartTime,
                           ![t].nextSelectionTime =
                               scanStartTime + obj[1].tSwitch_ + obj[1].tScan_,
                           ![t].channel_switch_flag = TRUE,
                           ![t].cells = 0]
    /\ UNCHANGED <<args, obj, thrown, mres, mfresh, mc, qry, sres, strials, ivVars, schVars, mvVars>>

\* the head of the while (true) loop, up to the test whether the scan started
Cell(t) ==
    /\ sc[t].pc = "cell"
    /\ sc[t].cells < MaxCells
    /\ IF /\ NumChannels(obj[1]) > 1
          /\ TxTime(sc[t].asn) >= sc[t].nextSelectionTime
       THEN sc' = [sc EXCEPT ![t].pc = "select", ![t].cells = @ + 1]
       ELSE sc' = [sc EXCEPT ![t].pc = "check", ![t].cells = @ + 1,
                             ![t].scannedChannel = sc[t].lastSelectedChannel]
    /\ UNCHANGED <<args, obj, thrown, mres, mfresh, mc, qry, sres, strials, ivVars, schVars, mvVars>>

\* one iteration of the do-while loop
Select(t) ==
    /\ sc[t].pc = "select"
    /\ \E ch \in {obj[1].chs_[i] : i \in 1..Len(obj[1].chs_)} :
          LET flag == ch # sc[t].lastSelectedChannel
              next == sc[t].nextSelectionTime + obj[1].tScan_
                      + (IF flag THEN obj[1].tSwitch_ ELSE 0)
          IN  sc' = [sc EXCEPT ![t].scannedChannel = ch,
                               ![t].channel_switch_flag = flag,
                               ![t].lastSelectedChannel = ch,
                               ![t].lastSelectionTime = sc[t].nextSelectionTime,
                               ![t].nextSelectionTime = next,
                               ![t].pc = IF next <= TxTime(sc[t].asn)
                                         THEN "select" ELSE "check"]
    /\ UNCHANGED <<args, obj, thrown, mres, mfresh, mc, qry, sres, strials, ivVars, schVars, mvVars>>

\* a scan that starts with the selection
ScanStartedAtOnce(p, f) == TRUE
\* not channel_switch_flag or txTime >= lastSelectionTime + tSwitch
ScanStarted(p, f) ==
    \/ ~f.channel_switch_flag
    \/ TxTime(f.asn) >= f.lastSelectionTime + p.tSwitch_

\* the outcomes of the test whether an EB is received in this cell
EbReceived(p, f) ==
    IF /\ ScanStarted(p, f)
       /\ At(p.chs_, f.asn % NumChannels(p)) = f.scannedChannel
    THEN DrawBelow(EbChance(p, f.scannedChannel))
    ELSE {FALSE}

CurrentStep(p, f) == CeilDiv(TxTime(f.asn) - f.scanStartTime, SlotframeDuration(p))

\* no EB in this cell: asn += s
CheckMiss(t) ==
    /\ sc[t].pc = "check"
    /\ FALSE \in EbReceived(obj[1], sc[t])
    /\ sc' = [sc EXCEPT ![t].pc = "cell", ![t].asn = @ + obj[1].s_]
    /\ UNCHANGED <<args, obj, thrown, mres, mfresh, mc, qry, sres, strials, ivVars, schVars, mvVars>>

\* an EB is received: the trial is recorded and ends
CheckSuccess(t) ==
    /\ sc[t].pc = "check"
    /\ TRUE \in EbReceived(obj[1], sc[t])
    /\ LET f == sc[t]
           d == TxTime(f.asn) - f.scanStartTime + obj[1].tEB_
       IN  /\ sc' = [sc EXCEPT ![t].pc = "trial", ![t].run = @ + 1,
                               ![t].avg_st = RAdd(@, RDivPow2(RInt(d), f.numRuns)),
                               ![CounterOwner(t)].counter =
                                   Count(@, CurrentStep(obj[1], f))]
           /\ strials' = [strials EXCEPT ![t] = Append(@, CurrentStep(obj[1], f))]
    /\ UNCHANGED <<args, obj, thrown, mres, mfresh, mc, qry, sres, ivVars, schVars, mvVars>>

\* the loop over run ends (every trial has counted a step)
SimReturn(t) ==
    /\ sc[t].pc = "trial"
    /\ NumChannels(obj[1]) > 0
    /\ sc[t].run >= sc[t].numRuns
    /\ DOMAIN sc[CounterOwner(t)].counter # {}
    /\ sres' = [sres EXCEPT ![t] = SimStore(@, sc[CounterOwner(t)].counter,
                                            sc[t].avg_st, sc[t].numRuns)]
    /\ sc' = [sc EXCEPT ![t].pc = "returned"]
    /\ UNCHANGED <<args, obj, thrown, mres, mfresh, mc, qry, strials, ivVars, schVars, mvVars>>

SimThread(t) ==
    \/ SimCall(t)
    \/ SimUndefined(t)
    \/ TrialStart(t)
    \/ Cell(t)
    \/ Select(t)
    \/ CheckMiss(t)
    \/ CheckSuccess(t)
    \/ SimReturn(t)

(***************************************************************************)
(* Results::cdf, of either engine, on the Results of thread 1.             *)
(***************************************************************************)
\* the largest steps argument that the model passes
MaxQuery == 5

ModelCdf ==
    /\ \E steps \in 0..MaxQuery :
          qry' = [engine |-> "model", steps |-> steps,
                  thrown |-> ModelResultsCdf(mres, steps).thrown,
                  value |-> ModelResultsCdf(mres, steps).value]
    /\ UNCHANGED <<args, obj, thrown, mres, mfresh, mc, simVars, ivVars, schVars, mvVars>>

SimCdf ==
    /\ \E steps \in 0..MaxQuery :
          qry' = [engine |-> "simulator", steps |-> steps,
                  thrown |-> SimResultsCdf(sres[1], steps).thrown,
                  value |-> SimResultsCdf(sres[1], steps).value]
    /\ UNCHANGED <<args, obj, thrown, mres, mfresh, mc, simVars, ivVars, schVars, mvVars>>

(***************************************************************************)
(* ModelValidator: the SQLite session.  db.handle and db.stmt are the      *)
(* static pointers db and stmt; tx, log, pending and committed are the     *)
(* database's side: whether a transaction is open, the BEGIN and END       *)
(* commands it executed, the rows inserted in the open transaction and     *)
(* the rows committed.  closeCalls counts the calls of closeDBSession and  *)
(* thrown is the exception that left the last call.                        *)
(***************************************************************************)
NUM_INSERTIONS_TO_CACHE == 100

NoSession ==
    [handle |-> "null", stmt |-> "null", insertCounter |-> 0, tx |-> FALSE,
     log |-> <<>>, pending |-> 0, committed |-> 0, closeCalls |-> 0,
     thrown |-> "none"]

\* sqlite3_exec(db, "BEGIN TRANSACTION")
ExecBegin(d) == [d EXCEPT !.tx = TRUE, !.log = Append(@, "BEGIN")]
\* sqlite3_exec(db, "END TRANSACTION")
ExecEnd(d) ==
    [d EXCEPT !.tx = FALSE, !.log = Append(@, "END"),
              !.committed = @ + d.pending, !.pending = 0]
\* sqlite3_close(db): a transaction that is still open is rolled back
SqliteClose(d) == [d EXCEPT !.handle = "closed", !.tx = FALSE, !.pending = 0]

\* closeDBSession(); fail = "end" when its END TRANSACTION fails
CloseDBSession(d, fail) ==
    LET ended == IF d.insertCounter % NUM_INSERTIONS_TO_CACHE # 0 /\ fail # "end"
                 THEN ExecEnd(d) ELSE d
        closed == SqliteClose([ended EXCEPT !.stmt = IF @ = "null" THEN "null" ELSE "finalized",
                                            !.closeCalls = @ + 1])
    IN  IF d.insertCounter % NUM_INSERTIONS_TO_CACHE # 0 /\ fail = "end"
        THEN [closed EXCEPT !.thrown = "runtime_error"]
        ELSE closed

\* prepareDBSession(); fail names the sqlite call that fails, "none" if none
PrepareDBSession(d, fail) ==
    LET fresh == [NoSession EXCEPT !.committed = d.committed, !.closeCalls = 0]
        opened == [fresh EXCEPT !.handle = "open"]
    IN  CASE fail = "open" -> [opened EXCEPT !.thrown = "runtime_error"]
          [] fail = "exec" ->
                [CloseDBSession(opened, "none") EXCEPT !.thrown = "runtime_error"]
          [] fail = "prepare" ->
                [CloseDBSession(opened, "none") EXCEPT !.thrown = "runtime_error"]
          [] OTHER -> [opened EXCEPT !.stmt = "prepared"]

\* a test that begins a transaction with every insertion
NeedsBeginAlways(c) == TRUE
\* insertCounter % NUM_INSERTIONS_TO_CACHE == 0 before the insertion
NeedsBegin(c) == c % NUM_INSERTIONS_TO_CACHE = 0
\* insertCounter % NUM_INSERTIONS_TO_CACHE == 0 after insertCounter++
NeedsEnd(c) == c % NUM_INSERTIONS_TO_CACHE = 0

\* save(...); fail names the sqlite call that fails, "none" if none
Save(d, fail) ==
    LET begun == IF NeedsBegin(d.insertCounter) THEN ExecBegin(d) ELSE d
        stepped == [begun EXCEPT !.insertCounter = @ + 1, !.pending = @ + 1]
    IN  IF NeedsBegin(d.insertCounter) /\ fail = "begin"
        THEN [CloseDBSession(d, "none") EXCEPT !.thrown = "runtime_error"]
        ELSE IF fail \in {"bind", "step"}
        THEN [begun EXCEPT !.thrown = "runtime_error"]
        ELSE IF NeedsEnd(stepped.insertCounter)
        THEN IF fail = "end"
             THEN [CloseDBSession(stepped, "none") EXCEPT !.thrown = "runtime_error"]
             ELSE ExecEnd(stepped)
        ELSE stepped

(***************************************************************************)
(* ModelValidator::makeValidation.  A random case is what the worker       *)
(* computes from it: whether one of the two error metrics is above         *)
(* MAX_ALLOWED_ERROR, and the model's average times for the case and for   *)
(* the same case with a scan period of C slotframes (nanoseconds).  The    *)
(* number of cases per flow is scaled down to NumRandomCases.              *)
(***************************************************************************)
NumRandomCases == 2
Workers == {1, 2}
NumFlows == 3

WOff == [pc |-> "off", i |-> 0, numCases |-> 0, exceeds |-> FALSE, avg |-> 0,
         opt |-> 0, late |-> 0]

MvIdle ==
    [pc |-> "idle", numThreads |-> 0, thrown |-> "none", result |-> <<>>,
     res |-> <<>>, validationFailed |-> FALSE, optimalScanPeriodFlag |-> TRUE,
     mutex |-> 0, w |-> [t \in Workers |-> WOff],
     exceeded |-> FALSE, lower |-> FALSE]

\* isOptimalScanPeriodValid: avgSyncTime().count() is a double in seconds,
\* and the cast to long long is applied to it before the multiplication
IsOptimalScanPeriodValid(avg, opt) ==
    \/ avg >= opt
    \/ (avg \div 1000000000) * 1000000 = (opt \div 1000000000) * 1000000

\* the number of cases of worker t: all of them for a single thread, else
\* NUM_RANDOM_CASES / numThreads, plus one for the first
\* NUM_RANDOM_CASES % numThreads threads
CasesOf(numThreads, t) ==
    IF numThreads = 1 THEN NumRandomCases
    ELSE IF NumRandomCases % numThreads >= t
    THEN NumRandomCases \div numThreads + 1
    ELSE NumRandomCases \div numThreads

\* where a worker stands after i cases: at the next case, or returned
LoopPc(i, numCases) == IF i < numCases THEN "gen" ELSE "done"

\* the last flow that ran returned -1: the chain of "or" stops
FlowFailed(res) == IF res = <<>> THEN FALSE ELSE res[Len(res)] = -1

\* makeValidation(numThreads): the argument check and prepareDBSession
MvCall ==
    /\ mv.pc = "idle"
    /\ \E n \in {0, 1, 2} :
          IF n < 1
          THEN /\ mv' = [mv EXCEPT !.pc = "thrown", !.numThreads = n,
                                   !.thrown = "invalid_argument"]
               /\ db' = db
          ELSE /\ mv' = [mv EXCEPT !.pc = "next", !.numThreads = n]
               /\ db' = PrepareDBSession(db, "none")
    /\ UNCHANGED <<args, obj, thrown, mres, mfresh, mc, qry, simVars, ivVars, schVars>>

\* comparisonWithSimulator is entered: the flags are initialized and the
\* workers started
FlowStart ==
    /\ mv.pc = "next"
    /\ Len(mv.res) < NumFlows
    /\ ~FlowFailed(mv.res)
    /\ mv' = [mv EXCEPT !.pc = "running",
                        !.validationFailed = FALSE,
                        !.optimalScanPeriodFlag = TRUE,
                        !.w = [t \in Workers |->
                                 IF t <= mv.numThreads
                                 THEN [WOff EXCEPT !.numCases = CasesOf(mv.numThreads, t),
                                                   !.pc = LoopPc(0, CasesOf(mv.numThreads, t))]
                                 ELSE WOff]]
    /\ UNCHANGED <<args, obj, thrown, mres, mfresh, mc, qry, simVars, ivVars, schVars, db>>

AvgPairs ==
    {<<1500000000, 1500000000>>, <<1200000000, 1900000000>>,
     <<900000000, 1100000000>>}

\* a worker draws a case and runs both engines on it
WCase(t) ==
    /\ mv.pc = "running"
    /\ mv.w[t].pc = "gen"
    /\ \E x \in BOOLEAN : \E a \in AvgPairs :
          mv' = [mv EXCEPT !.w[t].exceeds = x, !.w[t].avg = a[1], !.w[t].opt = a[2],
                           !.w[t].pc = IF mv.numThreads > 1 THEN "lock" ELSE "save"]
    /\ UNCHANGED <<args, obj, thrown, mres, mfresh, mc, qry, simVars, ivVars, schVars, db>>

\* a lock that does not wait
CanLockAlways(m) == TRUE
\* std::lock_guard<std::mutex> guard(_mutex) returns when the mutex is free
CanLock(m) == m = 0

WLock(t) ==
    /\ mv.pc = "running"
    /\ mv.w[t].pc = "lock"
    /\ CanLock(mv.mutex)
    /\ mv' = [mv EXCEPT !.mutex = t, !.w[t].pc = "save"]
    /\ UNCHANGED <<args, obj, thrown, mres, mfresh, mc, qry, simVars, ivVars, schVars, db>>

\* save(syncParameters, relativeErrorInAVG, maxAbsoluteErrorInCDF)
WSave(t) ==
    /\ mv.pc = "running"
    /\ mv.w[t].pc = "save"
    /\ db' = Save(db, "none")
    /\ mv' = [mv EXCEPT !.w[t].pc = "flags",
                        !.w[t].late = IF mv.validationFailed THEN @ + 1 ELSE @,
                        !.exceeded = @ \/ mv.w[t].exceeds,
                        !.lower = @ \/ mv.w[t].avg < mv.w[t].opt]
    /\ UNCHANGED <<args, obj, thrown, mres, mfresh, mc, qry, simVars, ivVars, schVars>>

\* the tests after save, to the end of the loop body or to the return; the
\* guard is released on the way out
WFlags(t) ==
    /\ mv.pc = "running"
    /\ mv.w[t].pc = "flags"
    /\ LET w == mv.w[t]
           free == [mv EXCEPT !.mutex = IF mv.numThreads > 1 THEN 0 ELSE @]
       IN  IF mv.numThreads > 1 /\ mv.validationFailed
           THEN mv' = [free EXCEPT !.w[t].pc = "done"]
           ELSE IF w.exceeds
           THEN mv' = [free EXCEPT !.validationFailed = TRUE, !.w[t].pc = "done"]
           ELSE mv' = [free EXCEPT !.optimalScanPeriodFlag =
                                       IF IsOptimalScanPeriodValid(w.avg, w.opt) THEN @ ELSE FALSE,
                                   !.w[t].i = w.i + 1,
                                   !.w[t].pc = LoopPc(w.i + 1, w.numCases)]
    /\ UNCHANGED <<args, obj, thrown, mres, mfresh, mc, qry, simVars, ivVars, schVars, db>>

\* the workers have returned (joined): the result of the flow
FlowEnd ==
    /\ mv.pc = "running"
    /\ \A t \in Workers : t <= mv.numThreads => mv.w[t].pc = "done"
    /\ mv' = [mv EXCEPT !.pc = "next",
                        !.res = Append(@, IF mv.validationFailed THEN -1
                                          ELSE IF ~mv.optimalScanPeriodFlag THEN 0
                                          ELSE 1)]
    /\ UNCHANGED <<args, obj, thrown, mres, mfresh, mc, qry, simVars, ivVars, schVars, db>>

\* finalRes, closeDBSession() and the return
MvReturn ==
    /\ mv.pc = "next"
    /\ Len(mv.res) = NumFlows \/ FlowFailed(mv.res)
    /\ db' = CloseDBSession(db, "none")
    /\ mv' = [mv EXCEPT !.pc = "returned",
                        !.result = <<IF \E j \in 1..Len(mv.res) : mv.res[j] = -1 THEN -1
                                     ELSE IF \E j \in 1..Len(mv.res) : mv.res[j] = 0 THEN 0
                                     ELSE 1>>]
    /\ UNCHANGED <<args, obj, thrown, mres, mfresh, mc, qry, simVars, ivVars, schVars>>

(***************************************************************************)
(* The constructor on its own: every argument tuple of CtorArgs.           *)
(***************************************************************************)
ChsChoices ==
    {<<>>, <<11>>, <<11, 12>>, <<12, 11>>, <<11, 11>>, <<10, 11>>,
     <<11, 27>>, <<11, 13, 12>>, <<11, 13, 14, 12>>}
SChoices == {0, 1, 2, 4}
ProbChoices == {RDyadic(-1, 1), RZero, ROne, RDyadic(3, 1)}
PsrKeys == {11, 12, 13}
PsrValues == {RDyadic(-1, 1), RZero, ROne, RDyadic(3, 1)}
PsrChoices == UNION {[K -> PsrValues] : K \in SUBSET PsrKeys}
TScanChoices == {-1, 0, 5000000}
TSwitchChoices == {-1, 0, 1000000}
TEbChoices == {-1, 0, 4256000}

CtorArgs ==
    [chs : ChsChoices, s : SChoices, pEB : ProbChoices, pSR : PsrChoices,
     tScan : TScanChoices, tSwitch : TSwitchChoices, tEB : TEbChoices]

CtorInit ==
    /\ args \in CtorArgs
    /\ obj = <<>>
    /\ thrown = "none"
    /\ mres = NewResults(RZero)
    /\ mfresh = NewResults(RZero)
    /\ mc = IdleFrame
    /\ qry = NoQuery
    /\ sres = [t \in Threads |-> NewResults(RZero)]
    /\ sc = [t \in Threads |-> SimIdle]
    /\ strials = [t \in Threads |-> <<>>]
    /\ iv = NoIntervals
    /\ ivq = NoOperation
    /\ sch = SchIdle
    /\ mv = MvIdle
    /\ db = NoSession

CtorNext == Construct

CtorSpec == CtorInit /\ [][CtorNext]_vars

(***************************************************************************)
(* Model::calculate on the objects built from ModelArgs, up to MaxCalls    *)
(* times on the same Results object.  The channel counts are powers of two *)
(* and the probabilities and Tscan / Tsf dyadic.  A default-constructed    *)
(* Results holds an indeterminate avgSyncTime_.                            *)
(***************************************************************************)
ModelChs == {<<>>, <<11>>, <<11, 12>>}
ModelS == {1, 3}
ModelPeb == {RZero, ROne}
ModelPsrValues == {RZero, ROne}
ModelTScan == {5000000, 10000000, 15000000, 20000000}
ModelTSwitch == {1000000}
ModelTEb == {4256000}
Indeterminate == {RZero, ROne}

ModelArgs ==
    {a \in [chs : ModelChs, s : ModelS, pEB : ModelPeb,
            pSR : UNION {[K -> ModelPsrValues] : K \in SUBSET {11, 12}},
            tScan : ModelTScan, tSwitch : ModelTSwitch, tEB : ModelTEb] :
        DOMAIN a.pSR = {a.chs[i] : i \in 1..Len(a.chs)}}

ModelInit ==
    /\ args \in ModelArgs
    /\ obj = <<>>
    /\ thrown = "none"
    /\ mres \in {NewResults(v) : v \in Indeterminate}
    /\ mfresh = NewResults(RZero)
    /\ mc = IdleFrame
    /\ qry = NoQuery
    /\ sres = [t \in Threads |-> NewResults(RZero)]
    /\ sc = [t \in Threads |-> SimIdle]
    /\ strials = [t \in Threads |-> <<>>]
    /\ iv = NoIntervals
    /\ ivq = NoOperation
    /\ sch = SchIdle
    /\ mv = MvIdle
    /\ db = NoSession

ModelNext ==
    \/ Construct
    \/ CalcCall
    \/ SumStep
    \/ SumExit
    \/ RecBase
    \/ RecBody
    \/ RecReturn
    \/ CdfStep
    \/ CdfThrow

ModelSpec == ModelInit /\ [][ModelNext]_vars

(***************************************************************************)
(* Results::cdf on Results objects with every cdf_ of CdfChoices: empty    *)
(* (default-constructed) or beginning with the 0 that both engines store   *)
(* at index 0.                                                             *)
(***************************************************************************)
MaxCdfLen == 4
CdfValues == {RZero, RHalf, ROne}
CdfChoices ==
    {<<>>} \cup UNION {{<<RZero>> \o c : c \in [1..n -> CdfValues]} : n \in 0..(MaxCdfLen - 1)}

CdfInit ==
    /\ args \in {a \in ModelArgs : a.chs = <<>> /\ a.tScan = 5000000 /\ a.pEB = RZero}
    /\ obj = <<>>
    /\ thrown = "none"
    /\ mres \in {[avgSyncTime_ |-> v, cdf_ |-> c] : v \in Indeterminate, c \in CdfChoices}
    /\ mfresh = NewResults(RZero)
    /\ mc = IdleFrame
    /\ qry = NoQuery
    /\ sres \in {[t \in Threads |-> IF t = 1 THEN [avgSyncTime_ |-> RZero, cdf_ |-> c]
                                   ELSE NewResults(RZero)] : c \in CdfChoices}
    /\ sc = [t \in Threads |-> SimIdle]
    /\ strials = [t \in Threads |-> <<>>]
    /\ iv = NoIntervals
    /\ ivq = NoOperation
    /\ sch = SchIdle
    /\ mv = MvIdle
    /\ db = NoSession

CdfNext ==
    \/ ModelCdf
    \/ SimCdf

CdfSpec == CdfInit /\ [][CdfNext]_vars

(***************************************************************************)
(* A client of TimeInterval: it holds the objects iv[i], i in Names, and   *)
(* calls the public operations with times of 0..MaxTime nanoseconds.       *)
(***************************************************************************)
MaxTime == 3
Times == 0..MaxTime

\* TimeInterval x; a default-constructed, empty interval
IvDefault ==
    /\ \E i \in Names :
          /\ iv' = [iv EXCEPT ![i] = EmptyInterval]
          /\ ivq' = [NoOperation EXCEPT !.op = "TimeInterval()",
                                        !.value = <<EmptyInterval>>]
    /\ UNCHANGED <<args, obj, thrown, mres, mfresh, mc, qry, simVars, schVars, mvVars>>

\* TimeInterval x(start, end)
IvConstruct ==
    /\ \E i \in Names, start \in Times, end \in Times :
          IF IntervalThrows(start, end)
          THEN /\ ivq' = [NoOperation EXCEPT !.op = "TimeInterval(start, end)",
                                             !.start = start, !.end = end,
                                             !.thrown = "invalid_argument"]
               /\ UNCHANGED iv
          ELSE /\ iv' = [iv EXCEPT ![i] = Set(EmptyInterval, start, end)]
               /\ ivq' = [NoOperation EXCEPT !.op = "TimeInterval(start, end)",
                                             !.start = start, !.end = end,
                                             !.value = <<Set(EmptyInterval, start, end)>>]
    /\ UNCHANGED <<args, obj, thrown, mres, mfresh, mc, qry, simVars, schVars, mvVars>>

\* x.set(start, end)
IvSet ==
    /\ \E i \in Names, start \in Times, end \in Times :
          /\ iv' = [iv EXCEPT ![i] = Set(iv[i], start, end)]
          /\ ivq' = [NoOperation EXCEPT !.op = "set", !.a = iv[i],
                                        !.start = start, !.end = end,
                                        !.value = <<Set(iv[i], start, end)>>]
    /\ UNCHANGED <<args, obj, thrown, mres, mfresh, mc, qry, simVars, schVars, mvVars>>

\* z = TimeInterval::intersection(x, y)
IvIntersection ==
    /\ \E i \in Names, j \in Names, k \in Names :
          IF IntersectionThrows(iv[i], iv[j])
          THEN /\ ivq' = [NoOperation EXCEPT !.op = "intersection",
                                             !.a = iv[i], !.b = iv[j],
                                             !.thrown = "invalid_argument"]
               /\ UNCHANGED iv
          ELSE /\ iv' = [iv EXCEPT ![k] = Intersection(iv[i], iv[j])]
               /\ ivq' = [NoOperation EXCEPT !.op = "intersection",
                                             !.a = iv[i], !.b = iv[j],
                                             !.value = <<Intersection(iv[i], iv[j])>>]
    /\ UNCHANGED <<args, obj, thrown, mres, mfresh, mc, qry, simVars, schVars, mvVars>>

\* x.isSubsetOf(y)
IvIsSubsetOf ==
    /\ \E i \in Names, j \in Names :
          ivq' = [NoOperation EXCEPT !.op = "isSubsetOf", !.a = iv[i], !.b = iv[j],
                                     !.value = <<IsSubsetOf(iv[i], iv[j])>>]
    /\ UNCHANGED <<args, obj, thrown, mres, mfresh, mc, qry, simVars, iv, schVars, mvVars>>

\* x.length()
IvLength ==
    /\ \E i \in Names :
          ivq' = [NoOperation EXCEPT !.op = "length", !.a = iv[i],
                                     !.value = <<Length(iv[i])>>]
    /\ UNCHANGED <<args, obj, thrown, mres, mfresh, mc, qry, simVars, iv, schVars, mvVars>>

IvInit ==
    /\ args \in {a \in ModelArgs : a.chs = <<>> /\ a.tScan = 5000000 /\ a.pEB = RZero}
    /\ obj = <<>>
    /\ thrown = "none"
    /\ mres = NewResults(RZero)
    /\ mfresh = NewResults(RZero)
    /\ mc = IdleFrame
    /\ qry = NoQuery
    /\ sres = [t \in Threads |-> NewResults(RZero)]
    /\ sc = [t \in Threads |-> SimIdle]
    /\ strials = [t \in Threads |-> <<>>]
    /\ iv = NoIntervals
    /\ ivq = NoOperation
    /\ sch = SchIdle
    /\ mv = MvIdle
    /\ db = NoSession

IvNext ==
    \/ IvDefault
    \/ IvConstruct
    \/ IvSet
    \/ IvIntersection
    \/ IvIsSubsetOf
    \/ IvLength

IvSpec == IvInit /\ [][IvNext]_vars

(***************************************************************************)
(* Case 2 on its own: the loop of Qsp over the steps of one scan period    *)
(* after the other, for one offset y.                                      *)
(***************************************************************************)
MaxK == 12
MaxN == 5

\* Qsp is entered for the first scan period with some offset y
WinCall ==
    /\ obj # <<>>
    /\ sch.pc = "idle"
    /\ CaseOf(obj[1]) = 2
    /\ \E y \in 0..(NumChannels(obj[1]) - 1) :
          sch' = [SchIdle EXCEPT !.pc = "window", !.y = y]
    /\ UNCHANGED <<args, obj, thrown, mres, mfresh, mc, qry, simVars, ivVars, mvVars>>

\* sum += Pstep_sp(k, y); the sum starts again with each scan period
WinStep ==
    /\ sch.pc = "window"
    /\ sch.k < MaxK
    /\ LET p == obj[1]
           k == sch.k + 1
       IN  sch' = [sch EXCEPT !.k = k,
                              !.Nchp = Nchp(p, k),
                              !.Pstep_sp = PstepSp(p, k, sch.y),
                              !.sum = RAdd(IF k = KfSp(p, k) THEN RZero ELSE @,
                                           PstepSp(p, k, sch.y))]
    /\ UNCHANGED <<args, obj, thrown, mres, mfresh, mc, qry, simVars, ivVars, mvVars>>

WinChs == {<<11>>, <<11, 12>>, <<11, 13, 14, 12>>}
WinS == {1, 3, 5}
WinProb == {RHalf, ROne}

\* tScan = n * Tsf for n = 1..MaxN; pSR equal on all channels, or halved on
\* every channel but the first
WinArgs ==
    {a \in [chs : WinChs, s : WinS, pEB : WinProb,
            pSR : UNION {[K -> WinProb] : K \in {{11}, {11, 12}, {11, 12, 13, 14}}},
            tScan : {n * s * DEFAULT_SLOT_DURATION : n \in 1..MaxN, s \in WinS},
            tSwitch : {0}, tEB : ModelTEb] :
        /\ DOMAIN a.pSR = {a.chs[i] : i \in 1..Len(a.chs)}
        /\ a.tScan % (a.s * DEFAULT_SLOT_DURATION) = 0
        /\ a.tScan \div (a.s * DEFAULT_SLOT_DURATION) <= MaxN
        /\ \A c \in DOMAIN a.pSR : c # 11 => a.pSR[c] = a.pSR[12]}

WinInit ==
    /\ args \in WinArgs
    /\ obj = <<>>
    /\ thrown = "none"
    /\ mres = NewResults(RZero)
    /\ mfresh = NewResults(RZero)
    /\ mc = IdleFrame
    /\ qry = NoQuery
    /\ sres = [t \in Threads |-> NewResults(RZero)]
    /\ sc = [t \in Threads |-> SimIdle]
    /\ strials = [t \in Threads |-> <<>>]
    /\ iv = NoIntervals
    /\ ivq = NoOperation
    /\ sch = SchIdle
    /\ mv = MvIdle
    /\ db = NoSession

WinNext ==
    \/ Construct
    \/ WinCall
    \/ WinStep

WinSpec == WinInit /\ [][WinNext]_vars

(***************************************************************************)
(* The channel of each minimal cell, as Model::calculate builds it (W, X)  *)
(* and as Simulator::run reads it (chs[asn % C]).  s and i are int, so the *)
(* product (i - 1) * s is an int; asn is a long long.                      *)
(***************************************************************************)
INT_MAX == 2147483647
MaxAsn == 40

\* a * b does not fit an int (0 <= a, 0 < b)
Overflows(a, b) == a > 0 /\ b > INT_MAX \div a

\* the low 32 bits of a * b read as a two's complement int (0 <= a < 2^15)
WrapMul(a, b) ==
    LET lo == a * (b % 65536)
        hi == (a * (b \div 65536) + lo \div 65536) % 65536
    IN  IF hi >= 32768 THEN (hi - 65536) * 65536 + (lo % 65536)
        ELSE hi * 65536 + (lo % 65536)

\* a % c of C++ for c > 0: the remainder has the sign of a
CRem(a, c) == IF a >= 0 \/ a % c = 0 THEN a % c ELSE (a % c) - c

\* what chs[j] yields: the element, or for j outside the vector any value
ReadChs(p, j) ==
    IF 0 <= j /\ j < NumChannels(p) THEN {At(p.chs_, j)}
    ELSE {0} \cup {p.chs_[n] : n \in 1..NumChannels(p)}

\* calculate is entered; the cells the comparison follows start at slot
\* m * s with m = y or y + C
SchCall ==
    /\ obj # <<>>
    /\ sch.pc = "idle"
    /\ \E y \in 0..(NumChannels(obj[1]) - 1) : \E m \in {y, y + NumChannels(obj[1])} :
          /\ IF m = 0 THEN TRUE ELSE obj[1].s_ <= MaxAsn \div m
          /\ sch' = [SchIdle EXCEPT !.pc = "sched", !.i = 1, !.y = y,
                                    !.asn = m * obj[1].s_]
    /\ UNCHANGED <<args, obj, thrown, mres, mfresh, mc, qry, simVars, ivVars, mvVars>>

\* one iteration of the loop that fills W; a product that does not fit an
\* int is undefined: the build may trap, or wrap and read chs at the index
\* the wrapped product gives, inside or outside the vector
SchPushW ==
    /\ sch.pc = "sched"
    /\ sch.i <= NumChannels(obj[1])
    /\ LET p == obj[1]
           C == NumChannels(p)
           i == sch.i
       IN  IF ~Overflows(i - 1, p.s_)
           THEN sch' = [sch EXCEPT !.i = i + 1,
                                   !.W = Append(@, At(p.chs_, ((i - 1) * p.s_) % C))]
           ELSE \/ sch' = [sch EXCEPT !.pc = "crashed"]
                \/ \E v \in ReadChs(p, CRem(WrapMul(i - 1, p.s_), C)) :
                      sch' = [sch EXCEPT !.i = i + 1, !.W = Append(@, v)]
    /\ UNCHANGED <<args, obj, thrown, mres, mfresh, mc, qry, simVars, ivVars, mvVars>>

\* the k-th minimal cell: X(k, y) of the model, chs[asn % C] of the
\* simulator, then asn += s
SchSlot ==
    /\ sch.pc = "sched"
    /\ sch.i > NumChannels(obj[1])
    /\ sch.asn <= MaxAsn
    /\ LET p == obj[1]
           C == NumChannels(p)
           k == sch.k + 1
       IN  sch' = [sch EXCEPT !.k = k,
                              !.modelChannel = At(sch.W, (sch.y + k - 1) % C),
                              !.simChannel = At(p.chs_, sch.asn % C),
                              !.visited = Append(@, At(p.chs_, sch.asn % C)),
                              !.asn = @ + p.s_]
    /\ UNCHANGED <<args, obj, thrown, mres, mfresh, mc, qry, simVars, ivVars, mvVars>>

SchedChs == {<<11>>, <<11, 12>>, <<12, 11, 13>>, <<11, 14, 12, 13>>}
SchedS == {1, 2, 3, 5, INT_MAX}

SchedArgs ==
    {a \in [chs : SchedChs, s : SchedS, pEB : {ROne},
            pSR : {[c \in K |-> ROne] : K \in {{11}, {11, 12}, {11, 12, 13}, {11, 12, 13, 14}}},
            tScan : {DEFAULT_SLOT_DURATION}, tSwitch : {0}, tEB : ModelTEb] :
        DOMAIN a.pSR = {a.chs[i] : i \in 1..Len(a.chs)}}

SchedInit ==
    /\ args \in SchedArgs
    /\ obj = <<>>
    /\ thrown = "none"
    /\ mres = NewResults(RZero)
    /\ mfresh = NewResults(RZero)
    /\ mc = IdleFrame
    /\ qry = NoQuery
    /\ sres = [t \in Threads |-> NewResults(RZero)]
    /\ sc = [t \in Threads |-> SimIdle]
    /\ strials = [t \in Threads |-> <<>>]
    /\ iv = NoIntervals
    /\ ivq = NoOperation
    /\ sch = SchIdle
    /\ mv = MvIdle
    /\ db = NoSession

SchedNext ==
    \/ Construct
    \/ SchCall
    \/ SchPushW
    \/ SchSlot

SchedSpec == SchedInit /\ [][SchedNext]_vars

(***************************************************************************)
(* The validator on its own: one call of makeValidation, no sqlite call    *)
(* failing.                                                                *)
(***************************************************************************)
ValInit ==
    /\ args \in {CHOOSE a \in SchedArgs : TRUE}
    /\ obj = <<>>
    /\ thrown = "none"
    /\ mres = NewResults(RZero)
    /\ mfresh = NewResults(RZero)
    /\ mc = IdleFrame
    /\ qry = NoQuery
    /\ sres = [t \in Threads |-> NewResults(RZero)]
    /\ sc = [t \in Threads |-> SimIdle]
    /\ strials = [t \in Threads |-> <<>>]
    /\ iv = NoIntervals
    /\ ivq = NoOperation
    /\ sch = SchIdle
    /\ mv = MvIdle
    /\ db = NoSession

ValNext ==
    \/ MvCall
    \/ FlowStart
    \/ \E t \in Workers : WCase(t)
    \/ \E t \in Workers : WLock(t)
    \/ \E t \in Workers : WSave(t)
    \/ \E t \in Workers : WFlags(t)
    \/ FlowEnd
    \/ MvReturn

ValSpec == ValInit /\ [][ValNext]_vars

(***************************************************************************)
(* The session on its own: prepareDBSession, calls of save, and            *)
(* closeDBSession, each sqlite call succeeding or failing.                 *)
(***************************************************************************)
MaxSaves == 205

DbPrepare ==
    /\ db.handle = "null"
    /\ db.thrown = "none"
    /\ \E fail \in {"none", "open", "exec", "prepare"} :
          db' = PrepareDBSession(db, fail)
    /\ UNCHANGED <<args, obj, thrown, mres, mfresh, mc, qry, simVars, ivVars, schVars, mv>>

DbSave ==
    /\ db.handle = "open"
    /\ db.thrown = "none"
    /\ db.insertCounter < MaxSaves
    /\ \E fail \in {"none", "begin", "bind", "step", "end"} :
          db' = Save(db, fail)
    /\ UNCHANGED <<args, obj, thrown, mres, mfresh, mc, qry, simVars, ivVars, schVars, mv>>

DbClose ==
    /\ db.handle = "open"
    /\ db.thrown = "none"
    /\ \E fail \in {"none", "end"} :
          db' = CloseDBSession(db, fail)
    /\ UNCHANGED <<args, obj, thrown, mres, mfresh, mc, qry, simVars, ivVars, schVars, mv>>

DbInit == ValInit

DbNext ==
    \/ DbPrepare
    \/ DbSave
    \/ DbClose

DbSpec == DbInit /\ [][DbNext]_vars

(***************************************************************************)
(* Case 3 on its own, with scan periods of 1.5, 2.5 and 3.5 slotframes.    *)
(***************************************************************************)
RecTScan == {15000000, 25000000, 35000000}
RecPsrValues == {RHalf, ROne}

RecArgs ==
    {a \in [chs : {<<11>>, <<11, 12>>}, s : {1}, pEB : {ROne},
            pSR : UNION {[K -> RecPsrValues] : K \in {{11}, {11, 12}}},
            tScan : RecTScan, tSwitch : {0}, tEB : ModelTEb] :
        DOMAIN a.pSR = {a.chs[i] : i \in 1..Len(a.chs)}}

RecInit ==
    /\ args \in RecArgs
    /\ obj = <<>>
    /\ thrown = "none"
    /\ mres = NewResults(RZero)
    /\ mfresh = NewResults(RZero)
    /\ mc = IdleFrame
    /\ qry = NoQuery
    /\ sres = [t \in Threads |-> NewResults(RZero)]
    /\ sc = [t \in Threads |-> SimIdle]
    /\ strials = [t \in Threads |-> <<>>]
    /\ iv = NoIntervals
    /\ ivq = NoOperation
    /\ sch = SchIdle
    /\ mv = MvIdle
    /\ db = NoSession

RecNext ==
    \/ Construct
    \/ CalcCall
    \/ RecBase
    \/ RecBody
    \/ RecReturn
    \/ CdfStep

RecSpec == RecInit /\ [][RecNext]_vars

(***************************************************************************)
(* Simulator::run in one thread, up to MaxCalls times on the same Results, *)
(* and in two threads at once.                                             *)
(***************************************************************************)
SimChs == {<<>>, <<11>>, <<11, 12>>}
SimPeb == {RZero, ROne}
SimPsrValues == {RHalf, ROne}
SimTScan == {5000000, 15000000}
SimTSwitch == {0, 1000000}

SimS == {1, 3}

\* with s = 3 only the longer scan period, a switch delay and certain
\* reception on the scanned channel
SimArgs ==
    {a \in [chs : SimChs, s : SimS, pEB : SimPeb,
            pSR : UNION {[K -> SimPsrValues] : K \in SUBSET {11, 12}},
            tScan : SimTScan, tSwitch : SimTSwitch, tEB : ModelTEb] :
        /\ DOMAIN a.pSR = {a.chs[i] : i \in 1..Len(a.chs)}
        /\ a.s > 1 => /\ a.tScan = 15000000 /\ a.tSwitch = 1000000 /\ a.pEB = ROne
                      /\ \A ch \in DOMAIN a.pSR : a.pSR[ch] = ROne}

SimInit ==
    /\ args \in SimArgs
    /\ obj = <<>>
    /\ thrown = "none"
    /\ mres = NewResults(RZero)
    /\ mfresh = NewResults(RZero)
    /\ mc = IdleFrame
    /\ qry = NoQuery
    /\ sres = [t \in Threads |-> NewResults(RZero)]
    /\ sc = [t \in Threads |-> SimIdle]
    /\ strials = [t \in Threads |-> <<>>]
    /\ iv = NoIntervals
    /\ ivq = NoOperation
    /\ sch = SchIdle
    /\ mv = MvIdle
    /\ db = NoSession

SimNext ==
    \/ Construct
    \/ \E t \in {1} : SimThread(t)

SimSpec == SimInit /\ [][SimNext]_vars

ConcArgs ==
    {a \in SimArgs :
        /\ a.s = 1 /\ a.pEB = ROne /\ a.tScan = 15000000 /\ a.tSwitch = 1000000
        /\ \/ a.chs = <<>>
           \/ a.chs = <<11, 12>> /\ a.pSR[11] = ROne /\ a.pSR[12] = RHalf}

\* each thread makes one call
ConcInit ==
    /\ args \in ConcArgs
    /\ obj = <<>>
    /\ thrown = "none"
    /\ mres = NewResults(RZero)
    /\ mfresh = NewResults(RZero)
    /\ mc = IdleFrame
    /\ qry = NoQuery
    /\ sres = [t \in Threads |-> NewResults(RZero)]
    /\ sc = [t \in Threads |-> [SimIdle EXCEPT !.calls = MaxCalls - 1]]
    /\ strials = [t \in Threads |-> <<>>]
    /\ iv = NoIntervals
    /\ ivq = NoOperation
    /\ sch = SchIdle
    /\ mv = MvIdle
    /\ db = NoSession

ConcNext ==
    \/ Construct
    \/ \E t \in Threads : SimThread(t)

ConcSpec == ConcInit /\ [][ConcNext]_vars

(***************************************************************************)
(* Properties of the constructor.                                          *)
(***************************************************************************)
Constructed == obj # <<>> \/ thrown # "none"

Channels(chs) == {chs[i] : i \in 1..Len(chs)}

IsProbability(x) == RGe(x, RZero) /\ RLe(x, ROne)

\* the nine invariants of a SyncParameters object
ParamInvariants(p) ==
    /\ \A c \in Channels(p.chs_) : c >= 11 /\ c <= 26
    /\ Cardinality(Channels(p.chs_)) = Len(p.chs_)
    /\ p.s_ > 0
    /\ Gcd(Len(p.chs_), p.s_) = 1
    /\ IsProbability(p.pEB_)
    /\ DOMAIN p.pSR_ = Channels(p.chs_)
    /\ \A c \in DOMAIN p.pSR_ : IsProbability(p.pSR_[c])
    /\ p.tScan_ > 0
    /\ p.tSwitch_ >= 0
    /\ p.tEB_ >= 0

Rejected == thrown # "none" /\ obj = <<>>

Violates(a, g) ==
    CASE g = 1 -> \E c \in Channels(a.chs) : c < 11 \/ c > 26
      [] g = 2 -> Cardinality(Channels(a.chs)) # Len(a.chs)
      [] g = 3 -> a.s <= 0
      [] g = 4 -> a.s > 0 /\ Gcd(Len(a.chs), a.s) # 1
      [] g = 5 -> ~IsProbability(a.pEB)
      [] g = 6 -> \/ ~(Channels(a.chs) \subseteq DOMAIN a.pSR)
                  \/ \E c \in Channels(a.chs) \cap DOMAIN a.pSR : ~IsProbability(a.pSR[c])
                  \/ Cardinality(DOMAIN a.pSR) > Len(a.chs)
      [] g = 7 -> a.tScan <= 0
      [] g = 8 -> a.tSwitch < 0
      [] g = 9 -> a.tEB < 0

ViolatedGroups(a) == {g \in 1..9 : Violates(a, g)}

GroupOf(e) ==
    CASE e = "chs_range" -> 1
      [] e = "chs_unique" -> 2
      [] e = "s_positive" -> 3
      [] e = "coprime" -> 4
      [] e = "pEB" -> 5
      [] e \in {"pSR_missing", "pSR_value", "pSR_extra"} -> 6
      [] e = "tScan" -> 7
      [] e = "tSwitch" -> 8
      [] e = "tEB" -> 9

\* C2: the exception raised is the one of the earliest violated condition in
\* the order range, uniqueness, s, gcd, pEB, pSR, tScan, tSwitch, tEB, and no
\* object exists unless every check passed.
C2_EarliestViolationIsReported ==
    Constructed =>
        IF ViolatedGroups(args) = {}
        THEN thrown = "none" /\ obj # <<>>
        ELSE /\ Rejected
             /\ GroupOf(thrown) \in ViolatedGroups(args)
             /\ \A g \in ViolatedGroups(args) : GroupOf(thrown) <= g

\* arguments that violate uniqueness, s > 0, tScan > 0 and tSwitch >= 0 were
\* rejected
C2_Witness ==
    /\ Rejected
    /\ {2, 3, 7, 8} \subseteq ViolatedGroups(args)
    /\ 1 \notin ViolatedGroups(args)

(***************************************************************************)
(* Properties of Results::cdf.                                             *)
(***************************************************************************)
\* what cdf(steps) must do on a Results whose vector is cdf_
CdfContract(cdf_, q) ==
    IF q.steps < 1 THEN q.thrown = "invalid_argument" /\ q.value = <<>>
    ELSE IF q.steps >= Len(cdf_) THEN q.thrown = "none" /\ q.value = <<ROne>>
    ELSE q.thrown = "none" /\ q.value = <<cdf_[q.steps + 1]>>

QueryAnswered ==
    /\ qry.engine = "model" => CdfContract(mres.cdf_, qry)
    /\ qry.engine = "simulator" => CdfContract(sres[1].cdf_, qry)

Returned == mc.pc = "returned"

\* the value cdf(k) returns, k >= 1
CdfOf(r, k) == ModelResultsCdf(r, k).value[1]

\* C4: after calculate on a fresh Results the cdf is non-decreasing over all
\* k >= 1, also from the last recorded step to the extension by 1, every
\* value lies in [0, 1], and cdf(k) = 1 for k > max_step.
C4_CdfMonotoneBounded ==
    Returned /\ mc.calls = 1 =>
        /\ \A k \in 1..(mc.max_step + 2) :
              /\ RLe(CdfOf(mres, k), CdfOf(mres, k + 1))
              /\ IsProbability(CdfOf(mres, k))
              /\ k > mc.max_step => CdfOf(mres, k) = ROne
        /\ Len(mres.cdf_) = mc.max_step + 1

\* a first call returned in Case 3 with a recorded value strictly between 0
\* and 1 and a last recorded value below 1
C4_Witness ==
    /\ Returned
    /\ mc.calls = 1
    /\ CaseOf(obj[1]) = 3
    /\ mc.max_step >= 3
    /\ RGt(CdfOf(mres, 1), RZero)
    /\ RLt(CdfOf(mres, mc.max_step), ROne)

\* the summation loop stands at an iteration beyond MaxSteps
SumLoopRunsOn == mc.pc = "sum" /\ mc.k > MaxSteps /\ BelowThreshold(mc.cumulativeProb)

\* recursiveCalc was called beyond MaxDepth and is past its base case
RecursionRunsOn ==
    /\ mc.pc = "rec"
    /\ mc.stack # <<>>
    /\ Head(mc.stack).i > MaxDepth
    /\ ~(IsEmpty(Head(mc.stack).I) \/ BelowEps(Head(mc.stack).q))

\* C5: calculate terminates on every accepted parameter set: the summation
\* loop reaches cumulative probability 1 - 1e-9 (within MaxSteps iterations)
\* and every branch of the recursion reaches its base case (within MaxDepth
\* calls).
C5_CalculateTerminates == ~SumLoopRunsOn /\ ~RecursionRunsOn

\* C8: after calculate on a Results that an earlier call populated, the
\* average and every cdf(k) are those of a call on a fresh Results.
C8_FreshComputation ==
    Returned =>
        /\ mres.avgSyncTime_ = mfresh.avgSyncTime_
        /\ \A k \in 1..(Len(mres.cdf_) + 1) : CdfOf(mres, k) = CdfOf(mfresh, k)

\* channel switch delays that replace the one of the parameters
TSwitchAlt == {0, 5000000}

\* whatever the step of calculate that is next reads from the parameters p
StepReads(p) ==
    <<NumChannels(p), Tsf(p),
      IF mc.pc = "sum" THEN <<PsyncSeries(p, mc.k), StepTime(p, mc.k)>> ELSE <<>>,
      IF mc.pc = "cdf" /\ CaseOf(p) # 3 THEN <<PsyncSeries(p, mc.k)>> ELSE <<>>,
      IF mc.pc = "rec" /\ mc.stack # <<>> /\ Head(mc.stack).i <= MaxDepth
      THEN <<RecNode(p, mc.pSyncArray, Head(mc.stack).q, Head(mc.stack).i,
                     Head(mc.stack).I, mc.y)>>
      ELSE <<>>,
      IF mc.pc = "rec" THEN <<Root(p)>> ELSE <<>> >>

\* C10: calculate does not take tSwitch into account: with any other channel
\* switch delay in the parameters the same case is chosen and every step
\* computes the same values, so the average and every cdf(k) are the same.
C10_SwitchDelayIgnored ==
    obj # <<>> /\ mc.pc # "idle" =>
        \A d \in TSwitchAlt :
            /\ CaseOf([obj[1] EXCEPT !.tSwitch_ = d]) = CaseOf(obj[1])
            /\ StepReads([obj[1] EXCEPT !.tSwitch_ = d]) = StepReads(obj[1])

\* a call with a switch delay of 1 ms returned in Case 1, where Tscan plus
\* the other switch delay reaches Tsf
C10_Witness ==
    /\ Returned
    /\ obj[1].tSwitch_ = 1000000
    /\ obj[1].tScan_ = 5000000
    /\ obj[1].s_ = 1
    /\ RGt(mres.avgSyncTime_, RZero)

(***************************************************************************)
(* Properties of Simulator::run.                                           *)
(***************************************************************************)
\* on some channel of chs an EB is received with non-zero probability
CanSync(p) == \E i \in 1..Len(p.chs_) : RGt(EbChance(p, p.chs_[i]), RZero)

\* the trial of thread t visited MaxCells minimal cells and received no EB
TrialRunsOn(t) == sc[t].pc = "cell" /\ sc[t].cells >= MaxCells

\* C6: under fair draws every trial of run records a success: a trial that
\* is still running (after MaxCells cells) has a draw ahead that succeeds
\* with non-zero probability.
C6_TrialsSucceed == \A t \in Threads : TrialRunsOn(t) => CanSync(obj[1])

\* C7: run with numRuns <= 0 throws invalid_argument before any trial and
\* leaves the supplied Results unchanged.
C7_InvalidNumRunsThrows ==
    [][\A t \in Threads :
          sc'[t].calls = sc[t].calls + 1 /\ sc'[t].numRuns <= 0 =>
              /\ sc'[t].pc = "threw"
              /\ sc'[t].thrown = "invalid_argument"
              /\ sres' = sres
              /\ strials' = strials]_vars

\* the second call, with numRuns = 0, threw and the Results still hold what
\* the first call stored
C7_Witness ==
    /\ sc[1].pc = "threw"
    /\ sc[1].calls = 2
    /\ sc[1].numRuns = 0
    /\ Len(sres[1].cdf_) >= 2
    /\ RGt(sres[1].avgSyncTime_, RZero)

\* the counter that the trials of one call, taken alone, produce
RECURSIVE CountAll(_, _)
CountAll(trials, n) ==
    IF n = 0 THEN EmptyCounter ELSE Count(CountAll(trials, n - 1), trials[n])

\* the Results of thread t are those of its own trials
OwnResults(t) ==
    /\ Len(strials[t]) = sc[t].numRuns
    /\ sres[t] = SimStore(NewResults(RZero), CountAll(strials[t], Len(strials[t])),
                          sc[t].avg_st, sc[t].numRuns)

\* C9: concurrent calls of run on separate Results share no mutable state:
\* a step of one thread changes nothing of another thread, and each call
\* returns what its own trials give in a sequential execution.
C9_ThreadsShareNothing ==
    /\ [](\A t \in Threads : sc[t].pc = "returned" => OwnResults(t))
    /\ [][\A t \in Threads :
             sc'[t] # sc[t] =>
                 \A u \in Threads \ {t} :
                     sc'[u] = sc[u] /\ sres'[u] = sres[u] /\ strials'[u] = strials[u]]_vars

\* both threads returned from calls of two trials with different Results
C9_Witness ==
    /\ sc[1].pc = "returned"
    /\ sc[2].pc = "returned"
    /\ sc[1].numRuns = 2
    /\ sc[2].numRuns = 2
    /\ Len(sres[1].cdf_) > Len(sres[2].cdf_)
    /\ Len(sres[2].cdf_) >= 2

(***************************************************************************)
(* The boundary between Case 1 and Case 2 of Model::calculate.             *)
(***************************************************************************)
\* the parameters with a scan period of exactly one slotframe
AtBoundary(p) == [p EXCEPT !.tScan_ = Tsf(p)]

\* the Results of the call that returned are those of the series P with the
\* step times T: prefix sums in cdf_, max_step the first step at which the
\* prefix sum reaches 1 - 10^-9, and avgSyncTime_ the sum of P[k] * T[k]
ResultsOfSeries(P, T) ==
    /\ \A k \in 1..mc.max_step :
          /\ At(mres.cdf_, k) = RSumRange(P, 1, k)
          /\ k < mc.max_step => BelowThreshold(RSumRange(P, 1, k))
    /\ ~BelowThreshold(RSumRange(P, 1, mc.max_step))
    /\ Len(mres.cdf_) = mc.max_step + 1
    /\ mres.avgSyncTime_ =
           RSumRange([k \in 1..mc.max_step |-> RMul(P[k], T[k])], 1, mc.max_step)

\* C11: a call with tScan < Tsf (Case 1) returns the per-step probabilities,
\* the max_step and the averageTime that the Case-2 formulas give for
\* tScan = Tsf (n = 1), and a call with tScan = Tsf returns those of the
\* Case-1 formulas.
C11_NoJumpAtCaseBoundary ==
    Returned /\ mc.calls = 1 =>
        LET p == obj[1]
            b == AtBoundary(p)
        IN  /\ CaseOf(p) = 1 =>
                /\ CaseOf(b) = 2
                /\ ScanFrames(b) = 1
                /\ ResultsOfSeries([k \in 1..mc.max_step |-> Psync2(b, k)],
                                   [k \in 1..mc.max_step |-> StepTime(b, k)])
            /\ CaseOf(p) = 2 /\ ScanFrames(p) = 1 =>
                ResultsOfSeries([k \in 1..mc.max_step |-> Psync1(p, k)],
                                [k \in 1..mc.max_step |-> StepTime(p, k)])

\* a Case-1 call on two channels returned after more than one step, with a
\* first step that succeeds with a probability strictly between 0 and 1
C11_Witness ==
    /\ Returned
    /\ mc.calls = 1
    /\ CaseOf(obj[1]) = 1
    /\ NumChannels(obj[1]) = 2
    /\ mc.max_step >= 2
    /\ RGt(At(mres.cdf_, 1), RZero)
    /\ RLt(At(mres.cdf_, 1), ROne)

(***************************************************************************)
(* Properties of TimeInterval.                                             *)
(***************************************************************************)
\* C13: every non-empty TimeInterval that the public operations produce has
\* start <= end, and the two-argument constructor throws invalid_argument
\* when start > end.
C13_StartNotAfterEnd ==
    /\ \A i \in Names : ~IsEmpty(iv[i]) => iv[i].start <= iv[i].end
    /\ ivq.op = "TimeInterval(start, end)" /\ ivq.start > ivq.end =>
           ivq.thrown = "invalid_argument"

\* the two intervals have no time in common
Disjoint(a, b) == a.end < b.start \/ b.end < a.start

\* C14: intersection(I, I) has the bounds of I, empty or not; the
\* intersection of two non-empty intervals with end1 < start2 or
\* end2 < start1 is empty; a non-empty result is
\* [max(start1, start2), min(end1, end2)]; and no call of intersection
\* leaves through the exception of the constructor.
C14_IntersectionLaws ==
    ivq.op = "intersection" =>
        /\ ivq.thrown = "none"
        /\ ivq.a = ivq.b => ivq.value = <<ivq.a>>
        /\ ~IsEmpty(ivq.a) /\ ~IsEmpty(ivq.b) /\ Disjoint(ivq.a, ivq.b) =>
               ivq.value = <<EmptyInterval>>
        /\ ivq.value # <<>> /\ ivq.value # <<EmptyInterval>> =>
               /\ ~IsEmpty(ivq.value[1])
               /\ ivq.value[1].start = Max2(ivq.a.start, ivq.b.start)
               /\ ivq.value[1].end = Min2(ivq.a.end, ivq.b.end)

\* C15: an empty interval has length 0; isSubsetOf is false when the
\* receiver or the argument is empty; for two non-empty intervals
\* A.isSubsetOf(B) is true exactly when B.start <= A.start and A.end <= B.end.
C15_LengthAndSubset ==
    /\ ivq.op = "length" /\ IsEmpty(ivq.a) => ivq.value = <<0>>
    /\ ivq.op = "isSubsetOf" =>
           /\ ivq.thrown = "none"
           /\ IsEmpty(ivq.a) \/ IsEmpty(ivq.b) => ivq.value = <<FALSE>>
           /\ ~IsEmpty(ivq.a) /\ ~IsEmpty(ivq.b) =>
                  ivq.value = <<ivq.b.start <= ivq.a.start /\ ivq.a.end <= ivq.b.end>>

\* isSubsetOf answered true for an interval that lies strictly inside another
C15_Witness ==
    /\ ivq.op = "isSubsetOf"
    /\ ivq.value = <<TRUE>>
    /\ ivq.a # ivq.b
    /\ ivq.a.start > ivq.b.start
    /\ ivq.a.end < ivq.b.end

(***************************************************************************)
(* Properties of the trials of Simulator::run.                             *)
(***************************************************************************)
\* the step recorded by the last trial of thread t
LastRecorded(t) == strials[t][Len(strials[t])]

\* C16: the step recorded for a trial is the 1-based index of the minimal
\* cell in which it succeeded: a success in the k-th cell examined is
\* recorded as step k, and every recorded step is at least 1.
C16_RecordedStepIsCellIndex ==
    \A t \in Threads :
        /\ \A i \in 1..Len(strials[t]) : strials[t][i] >= 1
        /\ sc[t].pc = "trial" /\ sc[t].run >= 1 => LastRecorded(t) = sc[t].cells

\* the largest step that a trial of the call of thread t recorded
LargestStep(t) ==
    CHOOSE k \in {strials[t][i] : i \in 1..Len(strials[t])} :
        \A i \in 1..Len(strials[t]) : strials[t][i] <= k

\* the number of trials of thread t that recorded a step <= k
TrialsUpTo(t, k) == Cardinality({i \in 1..Len(strials[t]) : strials[t][i] <= k})

\* C17: after a run with numRuns > 0, cdf_[k] is the number of trials with
\* a recorded step <= k over numRuns for every k from 1 to the largest
\* recorded step, the sequence does not decrease, and the value at the
\* largest recorded step is 1.
C17_EmpiricalCdf ==
    \A t \in Threads :
        sc[t].pc = "returned" =>
            LET cdf == sres[t].cdf_
                L   == LargestStep(t)
            IN  /\ Len(cdf) = L + 1
                /\ \A k \in 1..L :
                      /\ At(cdf, k) = RDivPow2(RInt(TrialsUpTo(t, k)), sc[t].numRuns)
                      /\ RLe(At(cdf, k - 1), At(cdf, k))
                /\ At(cdf, L) = ROne

\* the cells of the current trial of thread t that were examined before the
\* one at asn
CellsBefore(t) == IF sc[t].pc = "cell" THEN sc[t].cells ELSE sc[t].cells - 1

\* C18: the first slot a trial examines is the earliest slot with an ASN
\* that is a multiple of s and a transmission time at or after the scan
\* start, so that 0 <= txTime - scanStartTime < Tsf for it; every later slot
\* examined is exactly s slots after the one before.
C18_FirstSlotAndStride ==
    \A t \in Threads :
        sc[t].pc \in {"cell", "select", "check"} =>
            LET p     == obj[1]
                start == sc[t].scanStartTime
                first == sc[t].asn - CellsBefore(t) * p.s_
            IN  /\ first >= 0
                /\ first % p.s_ = 0
                /\ TxTime(first) >= start
                /\ \A b \in 0..(first - 1) : b % p.s_ = 0 => TxTime(b) < start
                /\ TxTime(first) - start < Tsf(p)

\* a trial with s = 3 that started inside slot 1 examines its second cell
C18_Witness ==
    /\ obj # <<>>
    /\ obj[1].s_ = 3
    /\ sc[1].pc = "check"
    /\ sc[1].scanStartTime = DEFAULT_SLOT_DURATION + 1
    /\ sc[1].cells = 2
    /\ sc[1].asn = 6

\* C19: with more than one channel, a cell is checked at a transmission time
\* with lastSelectionTime <= txTime < nextSelectionTime; a selection is made
\* at the end of the period before it, and its period lasts tScan + tSwitch
\* if the channel selected differs from the one before and tScan if it does
\* not; a success is recorded only in a cell whose channel is the scanned
\* one and whose transmission time is not inside the switch delay
\* [lastSelectionTime, lastSelectionTime + tSwitch) of a channel change.
C19_SelectionSchedule ==
    [][\A t \in Threads :
          obj # <<>> /\ NumChannels(obj[1]) > 1 =>
              /\ sc'[t].pc = "check" =>
                     /\ sc'[t].lastSelectionTime <= TxTime(sc'[t].asn)
                     /\ TxTime(sc'[t].asn) < sc'[t].nextSelectionTime
              /\ sc[t].pc = "select" /\ sc'[t] # sc[t] =>
                     LET changed == sc'[t].scannedChannel # sc[t].lastSelectedChannel
                     IN  /\ sc'[t].channel_switch_flag = changed
                         /\ sc'[t].lastSelectionTime = sc[t].nextSelectionTime
                         /\ sc'[t].nextSelectionTime - sc'[t].lastSelectionTime =
                                obj[1].tScan_ + (IF changed THEN obj[1].tSwitch_ ELSE 0)
              /\ Len(strials'[t]) = Len(strials[t]) + 1 =>
                     /\ At(obj[1].chs_, sc[t].asn % NumChannels(obj[1])) = sc[t].scannedChannel
                     /\ ~ /\ sc[t].channel_switch_flag
                          /\ TxTime(sc[t].asn) < sc[t].lastSelectionTime + obj[1].tSwitch_
      ]_vars

\* a trial on two channels succeeded in its second or a later cell, in a
\* period that began with a change of channel after the scan start, once
\* the switch delay had passed
C19_Witness ==
    /\ obj # <<>>
    /\ NumChannels(obj[1]) = 2
    /\ obj[1].tSwitch_ > 0
    /\ sc[1].pc = "trial"
    /\ sc[1].run >= 1
    /\ sc[1].cells >= 2
    /\ sc[1].channel_switch_flag
    /\ sc[1].lastSelectionTime > sc[1].scanStartTime
    /\ TxTime(sc[1].asn) >= sc[1].lastSelectionTime + obj[1].tSwitch_

(***************************************************************************)
(* Case 1 of Model::calculate in closed form.                              *)
(***************************************************************************)
\* C20: with tScan < Tsf, Psync(k) is 1/C times the sum over y = 0..C-1 of
\* the product over i = 1..k-1 of 1 - Pstep(i, y), times Pstep(k, y), where
\* Pstep(k, y) = 1/C * pEB * pSR[X(k, y)]; max_step is the first k at which
\* Psync(1) + ... + Psync(k) >= 1 - 10^-9; averageTime is the sum over
\* k = 1..max_step of Psync(k) * ((k - 1) * Tsf + Tsf / 2 + tEB); and cdf_
\* has max_step entries after index 0, the prefix sums.
C20_CaseOneClosedForm ==
    Returned /\ mc.calls = 1 /\ CaseOf(obj[1]) = 1 =>
        LET p == obj[1]
            C == NumChannels(p)
            step(k, y) == RDivPow2(RMul(p.pEB_, p.pSR_[X(p, k, y)]), C)
            cond(k, y) ==
                RMul(RProdRange([i \in 1..(k - 1) |-> RSub(ROne, step(i, y))], 1, k - 1),
                     step(k, y))
            P == [k \in 1..mc.max_step |->
                    RDivPow2(RSumRange([y \in 0..(C - 1) |-> cond(k, y)], 0, C - 1), C)]
            T == [k \in 1..mc.max_step |->
                    RInt((k - 1) * Tsf(p) + Tsf(p) \div 2 + p.tEB_)]
        IN  ResultsOfSeries(P, T)

\* a Case-1 call with three slots per slotframe and two channels returned
\* after more than two steps
C20_Witness ==
    /\ Returned
    /\ mc.calls = 1
    /\ CaseOf(obj[1]) = 1
    /\ obj[1].s_ = 3
    /\ NumChannels(obj[1]) = 2
    /\ mc.max_step >= 3
    /\ RLt(At(mres.cdf_, 2), ROne)

(***************************************************************************)
(* The survival exponent of Case 2.                                        *)
(***************************************************************************)
\* the steps of the scan period that contains step k, for periods of n steps
PeriodOf(n, k) ==
    {j \in 1..(k + n) : \E i \in 1..k : (i - 1) * n + 1 <= j /\ j <= i * n
                                        /\ (i - 1) * n + 1 <= k /\ k <= i * n}

\* the earlier steps of the scan period of step k that are scheduled on the
\* channel of step k
EarlierVisits(p, k, y) ==
    {j \in PeriodOf(ScanFrames(p), k) : j < k /\ X(p, j, y) = X(p, k, y)}

\* C21: in Case 2 the exponent Nchp used for step k is the number of
\* earlier steps of the scan period of k that are scheduled on the channel
\* of k, k_f is the first step of that period, the values of Pstep_sp over
\* a period sum to at most 1, and Qsp is a probability.
C21_SurvivalExponent ==
    sch.pc = "window" /\ sch.k >= 1 =>
        LET p == obj[1]
            n == ScanFrames(p)
            i == (sch.k + n - 1) \div n
        IN  /\ \A j \in PeriodOf(n, sch.k) : KfSp(p, sch.k) <= j
            /\ KfSp(p, sch.k) \in PeriodOf(n, sch.k)
            /\ sch.Nchp = Cardinality(EarlierVisits(p, sch.k, sch.y))
            /\ RLe(sch.sum, ROne)
            /\ IsProbability(sch.Pstep_sp)
            /\ sch.k = i * n =>
                   /\ Qsp(p, i, sch.y) = RSub(ROne, sch.sum)
                   /\ IsProbability(Qsp(p, i, sch.y))

\* a step whose channel was visited twice before in the same scan period of
\* five steps on two channels, with a reception probability below 1
C21_Witness ==
    /\ sch.pc = "window"
    /\ NumChannels(obj[1]) = 2
    /\ ScanFrames(obj[1]) = 5
    /\ sch.Nchp = 2
    /\ RGt(sch.Pstep_sp, RZero)
    /\ RLt(sch.sum, ROne)

(***************************************************************************)
(* Properties of the recursion of Case 3.                                  *)
(***************************************************************************)
\* the call of recursiveCalc that runs next, and whether it passes the
\* base-case test
NextCall == Head(mc.stack)
InRecursion == mc.pc = "rec" /\ mc.stack # <<>>
PassesBaseCase == InRecursion /\ ~IsEmpty(NextCall.I) /\ ~BelowEps(NextCall.q)

\* what the body of the next call computes
NextNode == RecNode(obj[1], mc.pSyncArray, NextCall.q, NextCall.i, NextCall.I, mc.y)

\* x lies in [0, q]
WithinMass(x, q) == RGe(x, RZero) /\ RLe(x, q)

RECURSIVE PendingMass(_)
PendingMass(stack) ==
    IF stack = <<>> THEN RZero ELSE RAdd(Head(stack).q, PendingMass(Tail(stack)))

\* C22: at every call of recursiveCalc that passes the base-case test,
\* Psync_first + the Psync_inter(k) + Psync_last + Q_C + (Q_NC if B(i + 1))
\* = q and each term lies in [0, q]; the probability recorded in pSyncArray
\* up to offset y, together with the mass of the calls still to run, never
\* exceeds (y + 1) / C.
C22_MassConserved ==
    /\ PassesBaseCase /\ NextCall.i <= MaxDepth =>
          LET n     == NextNode
              q     == NextCall.q
              lo    == Kf(obj[1], NextCall.i) + 1
              hi    == Kl(obj[1], NextCall.i) - 1
              inter == RSumRange(n.Psync_inter, lo, hi)
              nc    == IF n.more THEN n.notCovered.q ELSE RZero
          IN  /\ RAdd(RAdd(RAdd(RAdd(n.Psync_first, inter), n.Psync_last),
                           n.covered.q), nc) = q
              /\ WithinMass(n.Psync_first, q)
              /\ \A k \in lo..hi : WithinMass(n.Psync_inter[k], q)
              /\ WithinMass(n.Psync_last, q)
              /\ WithinMass(n.covered.q, q)
              /\ WithinMass(n.notCovered.q, q)
    /\ mc.pc = "rec" =>
          RLe(RAdd(RSumRange([k \in 1..Len(mc.pSyncArray) |-> mc.pSyncArray[k]],
                             1, Len(mc.pSyncArray)),
                   RDivPow2(PendingMass(mc.stack), NumChannels(obj[1]))),
              RDivPow2(RInt(mc.y + 1), NumChannels(obj[1])))

\* a call for the second offset, with a scan period of 2.5 slotframes on two
\* channels, whose mass is split over a first, an intermediate and a last
\* step and both continuations
C22_Witness ==
    /\ PassesBaseCase
    /\ NextCall.i <= MaxDepth
    /\ obj[1].tScan_ = 25000000
    /\ NumChannels(obj[1]) = 2
    /\ mc.y = 1
    /\ NextNode.more
    /\ RGt(NextNode.Psync_first, RZero)
    /\ RGt(NextNode.Psync_inter[2], RZero)
    /\ RGt(NextNode.Psync_last, RZero)
    /\ RGt(NextNode.covered.q, RZero)
    /\ RGt(NextNode.notCovered.q, RZero)

\* C23: every updatePSync(k, p) of a call has 1 <= k <= pSyncArray.size(),
\* so that p is added at index k (appended when k is the size) and nothing
\* else changes; k_f(1) = 1, k_f(i) < k_l(i), and k_f(i + 1) = k_l(i) when
\* the boundary between the periods i and i + 1 is misaligned and
\* k_l(i) + 1 when it is not.
C23_StepArrayWithoutGaps ==
    PassesBaseCase /\ NextCall.i <= MaxDepth =>
        LET p    == obj[1]
            i    == NextCall.i
            k_f  == Kf(p, i)
            k_l  == Kl(p, i)
            arr  == mc.pSyncArray
            n    == NextNode
            share(k) == IF k = k_f THEN n.Psync_first
                        ELSE IF k = k_l THEN n.Psync_last
                        ELSE n.Psync_inter[k]
            old(k) == IF k < Len(arr) THEN At(arr, k) ELSE RZero
        IN  /\ 1 <= k_f
            /\ k_f <= Len(arr)
            /\ k_f < k_l
            /\ Kf(p, 1) = 1
            /\ Kf(p, i + 1) = IF B(p, i + 1) THEN k_l ELSE k_l + 1
            /\ Len(n.pSyncArray) = Max2(Len(arr), k_l + 1)
            /\ \A k \in k_f..k_l :
                  At(n.pSyncArray, k) =
                      RAdd(old(k), RDivPow2(share(k), NumChannels(p)))
            /\ \A k \in 0..(Len(arr) - 1) :
                  k \notin k_f..k_l => At(n.pSyncArray, k) = At(arr, k)

\* a call for the second offset adds to a step that is already recorded and
\* that its period shares with the period before it
C23_Witness ==
    /\ PassesBaseCase
    /\ NextCall.i <= MaxDepth
    /\ mc.y = 1
    /\ B(obj[1], NextCall.i)
    /\ Kf(obj[1], NextCall.i) < Len(mc.pSyncArray)
    /\ RGt(At(mc.pSyncArray, Kf(obj[1], NextCall.i)), RZero)
    /\ RGt(NextNode.Psync_first, RZero)

\* C24: an interval that reaches recursiveCalc lies within [0, Tsf], and a
\* single point only together with q = 0; a call that passes the base-case
\* test has an interval of positive length, and none of its constructions
\* Rl, Ll, Rf and intersections throws.
C24_IntervalsHavePositiveLength ==
    /\ InRecursion =>
          \A j \in 1..Len(mc.stack) :
              LET c == mc.stack[j]
              IN  ~IsEmpty(c.I) =>
                      /\ 0 <= c.I.start
                      /\ c.I.start <= c.I.end
                      /\ c.I.end <= Tsf(obj[1])
                      /\ Length(c.I) = 0 => c.q = RZero
    /\ PassesBaseCase =>
          LET p  == obj[1]
              I  == NextCall.I
              r  == (NextCall.i * p.tScan_) % Tsf(p)
              rf == ((NextCall.i - 1) * p.tScan_) % Tsf(p)
          IN  /\ Length(I) > 0
              /\ ~IntervalThrows(r, Tsf(p))
              /\ ~IntervalThrows(0, r)
              /\ ~IntervalThrows(rf, Tsf(p))
              /\ ~IntersectionThrows(I, Interval(0, r))
              /\ ~IntersectionThrows(I, Interval(r, Tsf(p)))

\* the next call was handed a single point, with q = 0, by a call whose
\* interval ended where Rl begins
C24_Witness ==
    /\ InRecursion
    /\ ~IsEmpty(NextCall.I)
    /\ Length(NextCall.I) = 0
    /\ NextCall.I.start > 0
    /\ NextCall.q = RZero
    /\ NextCall.i >= 3


\* C25: W is a permutation of chs for every accepted (chs, s); the channel
\* X(k, y) of the model is the channel chs[asn mod C] the simulator reads at
\* the k-th minimal cell when the first one has asn = m * s with
\* m mod C = y; and every C consecutive minimal cells visit each channel of
\* chs once.
C25_HoppingSequence ==
    /\ sch.pc # "crashed"
    /\ sch.pc = "sched" /\ sch.i > NumChannels(obj[1]) =>
          LET p == obj[1]
              C == NumChannels(p)
          IN  /\ Len(sch.W) = C
              /\ {sch.W[j] : j \in 1..C} = {p.chs_[j] : j \in 1..C}
              /\ sch.k >= 1 => sch.modelChannel = sch.simChannel
              /\ \A j \in 1..(Len(sch.visited) - C + 1) :
                    {sch.visited[j + d] : d \in 0..(C - 1)} = {p.chs_[n] : n \in 1..C}

\* C25 for the slotframe lengths whose products (i - 1) * s fit an int
C25_HoppingSequenceInRange ==
    (obj # <<>> /\ ~Overflows(Max2(NumChannels(obj[1]) - 1, 0), obj[1].s_)) =>
        C25_HoppingSequence


\* C26: every object the constructor accepts has at least one channel
\* (C >= 1), so that the remainders modulo C, the draw from [0, C - 1] and
\* the last recorded step are defined in the engines.
C26_AtLeastOneChannel ==
    obj # <<>> => NumChannels(obj[1]) >= 1


\* C27: makeValidation throws invalid_argument for numThreads < 1 before a
\* session is opened; otherwise it returns -1 exactly when some saved
\* comparison exceeded MAX_ALLOWED_ERROR, and then no later flow was
\* started; 0 exactly when none exceeded but some compared case had a lower
\* average time than the same case with a scan period of C slotframes; and
\* 1 otherwise; closeDBSession has then been called exactly once.
C27_ValidationResult ==
    /\ mv.pc # "idle" /\ mv.numThreads < 1 =>
          mv.pc = "thrown" /\ db.handle = "null" /\ db.closeCalls = 0
    /\ mv.pc = "thrown" => mv.numThreads < 1 /\ mv.thrown = "invalid_argument"
    /\ \A j \in 1..(Len(mv.res) - 1) : mv.res[j] # -1
    /\ mv.pc = "returned" =>
          /\ mv.result[1] = -1 <=> mv.exceeded
          /\ mv.result[1] = 0 <=> ~mv.exceeded /\ mv.lower
          /\ mv.result[1] = 1 <=> ~mv.exceeded /\ ~mv.lower
          /\ db.closeCalls = 1
          /\ db.handle = "closed"

C29_TransactionBatches ==
    db.thrown = "none" /\ db.handle # "null" =>
        /\ \A j \in 1..Len(db.log) :
              db.log[j] = IF j % 2 = 1 THEN "BEGIN" ELSE "END"
        /\ db.handle = "open" =>
              /\ db.tx <=> db.insertCounter % NUM_INSERTIONS_TO_CACHE # 0
              /\ db.tx <=> Len(db.log) % 2 = 1
              /\ db.pending = db.insertCounter % NUM_INSERTIONS_TO_CACHE
              /\ db.committed = NUM_INSERTIONS_TO_CACHE * (Len(db.log) \div 2)
        /\ db.handle = "closed" =>
              /\ ~db.tx
              /\ Len(db.log) % 2 = 0
              /\ db.pending = 0
              /\ db.committed = db.insertCounter

\* a session closed after more than 100 insertions, the last transaction
\* ended by closeDBSession
C29_Witness ==
    /\ db.thrown = "none"
    /\ db.handle = "closed"
    /\ db.closeCalls = 1
    /\ db.insertCounter > NUM_INSERTIONS_TO_CACHE
    /\ db.insertCounter % NUM_INSERTIONS_TO_CACHE # 0
    /\ db.log = <<"BEGIN", "END", "BEGIN", "END">>

\* C30: when prepareDBSession or save throws runtime_error, closeDBSession
\* has been called exactly once, the statement is finalized, the handle
\* closed and no transaction open.
C30_SessionClosedOnError ==
    db.thrown = "runtime_error" =>
        /\ db.closeCalls = 1
        /\ db.stmt # "prepared"
        /\ db.handle = "closed"
        /\ ~db.tx

====
